---- MODULE Spec2Model ----
(***************************************************************************)
(* Parallel Cordon engine of ParallelDP: the prefix-minimum segment tree   *)
(* (include/segment_tree.h), the LIS scheduler (include/lis.h), the LCS    *)
(* driver (include/lcs.h) and the Convex-GLWS solver (include/glws.h).     *)
(* Indices are 0-based as in the source: vectors are functions on 0..n-1,  *)
(* except the rows of arrows, which are sequences read through At.         *)
(***************************************************************************)
EXTENDS Integers, Sequences, FiniteSets, TLC

\* ------------------------------------------------------------------ bounds
MaxN == 4          \* longest LIS input
MaxKey == 3        \* LIS keys are 0..MaxKey
MaxRows == 3       \* most rows of an arrows array
MaxCols == 2       \* arrows hold column indices 0..MaxCols-1
MaxLongRows == 2   \* most rows of an arrows array with long rows
MaxBuild == 1      \* longest array of a rebuild
MaxLen == 3        \* longest LCS input sequence
MaxSym == 1        \* LCS symbols are 0..MaxSym
MaxG == 4          \* most states of a GLWS instance
MaxCost == 2       \* GLWS costs are 0..MaxCost
MaxCall == 2       \* longest input of a whole call of compute
MaxLeaves == 3     \* largest capacity of a tournament tree
MaxVal == 1        \* tournament values are 0..MaxVal
MaxThreads == 2    \* threads calling into one tournament tree
MaxOps == 2        \* calls started on one tournament tree

\* std::numeric_limits<T>::max(), the sentinel of every tree
Infinity == 1000
\* the look-ahead of the hybrid search at a leaf
LookAhead == 8

VARIABLES
  pc,            \* position of the running driver
  ret,           \* the value the driver returned, -1 before it returns
  \* SegmentTree object
  tree, n, now, arrows, prefix_mode, parallel, granularity,
  thrown,        \* the exception the last call ended with, or "none"
  removed,       \* history: leaves of a key tree removed and not written since
  \* LIS::compute locals
  data, dp, finalized, numFinalized, cordonIdx, maxResult, dp_cordon,
  data_cordon, iter, tmp,
  compare,       \* the Compare of the LIS object: "less" or "greater"
  dpBefore,      \* history: dp when the relax loop of the round was entered
  \* LCS::compute / compute_arrows locals
  data1, data2, round,
  nowBefore,     \* history: now when the cascade of the round was started
  frames,        \* the activations of prefix_min_recursive, by tree node
  \* ConvexGLWS::compute locals
  cost, D, glws_now, B, cordon, fin,
  glws_round,    \* history: passes of the while loop of compute
  \* LockFreeTournamentTree object, its callers, and the calls that returned
  nodes, leaf_count, total_nodes, global_version, threads, log

treeVars == <<tree, n, now, arrows, prefix_mode, parallel, granularity,
              thrown, removed>>
lisVars == <<data, dp, finalized, numFinalized, cordonIdx, maxResult, dp_cordon,
             data_cordon, iter, tmp, compare, dpBefore>>
lcsVars == <<data1, data2, round, nowBefore, frames>>
glwsVars == <<cost, D, glws_now, B, cordon, fin, glws_round>>
ttVars == <<nodes, leaf_count, total_nodes, global_version, threads, log>>
vars == <<pc, ret, treeVars, lisVars, lcsVars, glwsVars, ttVars>>

\* ------------------------------------------------------------- SegmentTree
lc(x) == 2 * x + 1
rc(x) == 2 * x + 2

\* std::min
Min(a, b) == IF b < a THEN b ELSE a
\* std::max
Max(a, b) == IF a < b THEN b ELSE a

\* ys[k] of a 0-based vector kept as a sequence
At(ys, k) == ys[k + 1]

\* tree.resize(4 * n, inf_value)
EmptyTree(sz) == [x \in 0 .. (4 * sz - 1) |-> Infinity]

RECURSIVE build_recursive(_, _, _, _, _, _)
build_recursive(t, arr, sz, x, l, r) ==
  IF l = r
  THEN [t EXCEPT ![x] = IF l < sz THEN arr[l] ELSE Infinity]
  ELSE LET mid == (l + r) \div 2
           t1 == build_recursive(t, arr, sz, lc(x), l, mid)
           t2 == build_recursive(t1, arr, sz, rc(x), mid + 1, r)
       IN [t2 EXCEPT ![x] = Min(t2[lc(x)], t2[rc(x)])]

build(arr, sz) == build_recursive(EmptyTree(sz), arr, sz, 0, 0, sz - 1)

\* tree[x] = std::min(tree[lc(x)], tree[rc(x)]) on the way back up
RecombineLeft(t, x) == [t EXCEPT ![x] = t[lc(x)]]
Recombine(t, x) == [t EXCEPT ![x] = Min(t[lc(x)], t[rc(x)])]

\* the node that holds leaf i, and the key stored there
RECURSIVE LeafNode(_, _, _, _)
LeafNode(x, l, r, i) ==
  IF l = r THEN x
  ELSE LET mid == (l + r) \div 2
       IN IF i <= mid THEN LeafNode(lc(x), l, mid, i)
          ELSE LeafNode(rc(x), mid + 1, r, i)
LeafVal(t, sz, i) == t[LeafNode(0, 0, sz - 1, i)]

\* the nodes update_recursive visits on its way to leaf i
RECURSIVE PathTo(_, _, _, _)
PathTo(x, l, r, i) ==
  IF l = r THEN {x}
  ELSE LET mid == (l + r) \div 2
       IN {x} \cup (IF i <= mid THEN PathTo(lc(x), l, mid, i)
                    ELSE PathTo(rc(x), mid + 1, r, i))

\* update_recursive without the recombination on the way back up
update_recursiveLeafOnly(t, x, l, r, pos, new_val) ==
  [t EXCEPT ![LeafNode(x, l, r, pos)] = new_val]

RECURSIVE update_recursive(_, _, _, _, _, _)
update_recursive(t, x, l, r, pos, new_val) ==
  IF l = r
  THEN [t EXCEPT ![x] = new_val]
  ELSE LET mid == (l + r) \div 2
           t1 == IF pos <= mid
                 THEN update_recursive(t, lc(x), l, mid, pos, new_val)
                 ELSE update_recursive(t, rc(x), mid + 1, r, pos, new_val)
       IN Recombine(t1, x)

removeKeepsLeaf(t, sz, pos) == t
remove(t, sz, pos) == update_recursive(t, 0, 0, sz - 1, pos, Infinity)

global_min(t) == t[0]

\* if (left_min <= right_min): the walk of find_min_index goes left on a tie
goLeftStrict(left_min, right_min) == left_min < right_min
goLeft(left_min, right_min) == left_min <= right_min

RECURSIVE find_min_walk(_, _, _, _)
find_min_walk(t, node_idx, left, right) ==
  IF left < right
  THEN LET mid == (left + right) \div 2
           left_min == t[lc(node_idx)]
           right_min == t[rc(node_idx)]
       IN IF goLeft(left_min, right_min)
          THEN find_min_walk(t, lc(node_idx), left, mid)
          ELSE find_min_walk(t, rc(node_idx), mid + 1, right)
  ELSE left

\* the last leaf below the sentinel
find_min_indexLastOpen(t, sz) ==
  LET open == {i \in 0 .. (sz - 1) : LeafVal(t, sz, i) < Infinity}
  IN IF open = {} THEN 0 ELSE CHOOSE i \in open : \A j \in open : j <= i
\* find_min_index(): the walk from the root to the leftmost least leaf
find_min_index(t, sz) == find_min_walk(t, 0, 0, sz - 1)

\* node x of the subtree rooted at node root over [l, r], with its range
RECURSIVE NodesOf(_, _, _)
NodesOf(x, l, r) ==
  IF l = r
  THEN {<<x, l, r>>}
  ELSE LET mid == (l + r) \div 2
       IN {<<x, l, r>>} \cup NodesOf(lc(x), l, mid) \cup NodesOf(rc(x), mid + 1, r)

\* ---------------------------------------------------------------- idle parts
IdleTree ==
  /\ tree = <<>> /\ now = <<>> /\ arrows = <<>>
  /\ prefix_mode = FALSE /\ parallel = FALSE /\ granularity = 0
  /\ thrown = "none" /\ removed = {}
IdleLIS ==
  /\ data = <<>> /\ dp = <<>> /\ finalized = <<>> /\ numFinalized = 0
  /\ cordonIdx = -1 /\ maxResult = 0 /\ dp_cordon = 0 /\ data_cordon = 0
  /\ iter = <<>> /\ tmp = <<>> /\ dpBefore = <<>>
  /\ compare = "less"
IdleLCS ==
  /\ data1 = <<>> /\ data2 = <<>> /\ round = 0 /\ nowBefore = <<>>
  /\ frames = <<>>
IdleTT ==
  /\ nodes = <<>> /\ leaf_count = 0 /\ total_nodes = 0 /\ global_version = 0
  /\ threads = <<>> /\ log = <<>>
IdleGLWS ==
  /\ cost = <<>> /\ D = <<>> /\ glws_now = 0 /\ B = <<>> /\ cordon = 0
  /\ fin = {} /\ glws_round = 0

\* ------------------------------------------------------------------- LIS
\* Compare = std::less<T>
cmpNonStrict(a, b) == a <= b
cmp(a, b) == a < b
\* the comparator compute is called with: Compare(), std::less or std::greater
Compare(a, b) == IF compare = "greater" THEN a > b ELSE cmp(a, b)

\* the value an iteration stores: std::max(dp[i], dp_cordon + 1)
RelaxValueOverwrite(old, dc) == dc + 1
RelaxValue(old, dc) == Max(old, dc + 1)

\* the slot holding the value an iteration read from dp: private to it
TmpSlotShared(i) == 0
TmpSlot(i) == i

LISOver(maxn, cmps, keys) ==
  /\ n \in 1 .. maxn
  /\ data \in [0 .. (n - 1) -> keys]
  /\ compare \in cmps
  /\ dp = [i \in 0 .. (n - 1) |-> 1]
  /\ finalized = [i \in 0 .. (n - 1) |-> FALSE]
  /\ tree = build(data, n)
  /\ now = <<>> /\ arrows = <<>> /\ prefix_mode = FALSE
  /\ parallel = FALSE /\ granularity = 0
  /\ thrown = "none" /\ removed = {}
  /\ numFinalized = 0 /\ cordonIdx = -1 /\ maxResult = 0
  /\ dp_cordon = 0 /\ data_cordon = 0
  /\ iter = [i \in 0 .. (n - 1) |-> "skip"]
  /\ tmp = [i \in 0 .. (n - 1) |-> 0]
  /\ dpBefore = dp
  /\ pc = "select" /\ ret = -1
  /\ IdleTT
  /\ IdleLCS /\ IdleGLWS

\* keys below the sentinel
LISUpTo(maxn, cmps) == LISOver(maxn, cmps, 0 .. MaxKey)

InitLIS == LISUpTo(MaxN, {"less"})

\* while (numFinalized < n): cordon query, capture of dp_cordon and data_cordon
Select ==
  /\ pc = "select"
  /\ IF numFinalized < n
     THEN LET c == find_min_index(tree, n)
          IN /\ cordonIdx' = c
             /\ dp_cordon' = dp[c]
             /\ data_cordon' = data[c]
             /\ iter' = [i \in 0 .. (n - 1) |-> IF i > c THEN "todo" ELSE "skip"]
             /\ dpBefore' = dp
             /\ pc' = "relax" /\ ret' = ret
     ELSE /\ pc' = "done" /\ ret' = maxResult
          /\ UNCHANGED <<cordonIdx, dp_cordon, data_cordon, iter, dpBefore>>
  /\ UNCHANGED <<treeVars, data, dp, finalized, numFinalized, maxResult, tmp,
                 compare,
                 lcsVars, glwsVars, ttVars>>

\* iteration i of the parallel for: the test and the read of dp[i]
RelaxRead(i) ==
  /\ pc = "relax" /\ iter[i] = "todo"
  /\ IF ~finalized[i] /\ Compare(data_cordon, data[i])
     THEN /\ tmp' = [tmp EXCEPT ![TmpSlot(i)] = dp[i]]
          /\ iter' = [iter EXCEPT ![i] = "read"]
     ELSE /\ iter' = [iter EXCEPT ![i] = "done"]
          /\ tmp' = tmp
  /\ UNCHANGED <<pc, ret, treeVars, data, dp, finalized, numFinalized, cordonIdx,
                 maxResult, dp_cordon, data_cordon, compare, dpBefore, lcsVars,
                 glwsVars, ttVars>>

\* iteration i of the parallel for: the write of dp[i]
RelaxWrite(i) ==
  /\ pc = "relax" /\ iter[i] = "read"
  /\ dp' = [dp EXCEPT ![i] = RelaxValue(tmp[TmpSlot(i)], dp_cordon)]
  /\ iter' = [iter EXCEPT ![i] = "done"]
  /\ UNCHANGED <<pc, ret, treeVars, data, finalized, numFinalized, cordonIdx,
                 maxResult, dp_cordon, data_cordon, tmp, compare, dpBefore, lcsVars,
                 glwsVars, ttVars>>

\* the implicit barrier at the end of the parallel for
RelaxNoBarrier == TRUE
RelaxJoined == \A i \in 0 .. (n - 1) : iter[i] \in {"skip", "done"}

\* after the loop: finalise the cordon and remove it from the tree
Finalize ==
  /\ pc = "relax" /\ RelaxJoined
  /\ finalized' = [finalized EXCEPT ![cordonIdx] = TRUE]
  /\ numFinalized' = numFinalized + 1
  /\ maxResult' = Max(maxResult, dp[cordonIdx])
  /\ tree' = remove(tree, n, cordonIdx)
  /\ removed' = removed \cup {cordonIdx}
  /\ pc' = "select" /\ ret' = ret
  /\ UNCHANGED <<n, now, arrows, prefix_mode, parallel, granularity, thrown,
                 data, dp,
                 cordonIdx, dp_cordon, data_cordon, iter, tmp, compare, dpBefore,
                 lcsVars, glwsVars, ttVars>>

NextLIS ==
  \/ Select
  \/ \E i \in 0 .. (MaxN - 1) : i < n /\ RelaxRead(i)
  \/ \E i \in 0 .. (MaxN - 1) : i < n /\ RelaxWrite(i)
  \/ Finalize

SpecLIS == InitLIS /\ [][NextLIS]_vars

\* refSol of tests/test_lis.cpp: the naive O(n^2) DP
refSol(nums, sz) ==
  IF sz <= 1
  THEN sz
  ELSE LET d[i \in 0 .. (sz - 1)] ==
             LET c == {d[j] + 1 : j \in {k \in 0 .. (i - 1) : nums[i] > nums[k]}}
             IN CHOOSE m \in c \cup {1} : \A v \in c \cup {1} : v <= m
           res == {d[i] : i \in 1 .. (sz - 1)}
       IN CHOOSE m \in res : \A v \in res : v <= m

\* length of the longest strictly increasing subsequence, by definition
Increasing(nums, S) == \A i \in S : \A j \in S : i < j => nums[i] < nums[j]
LongestIncreasing(nums, sz) ==
  LET lens == {Cardinality(S) : S \in {T \in SUBSET (0 .. (sz - 1)) : Increasing(nums, T)}}
  IN CHOOSE m \in lens : \A v \in lens : v <= m

\* the relax loop of one round run sequentially, from the dp it was entered with
RelaxSeq(d) ==
  [i \in 0 .. (n - 1) |->
     IF i > cordonIdx /\ ~finalized[i] /\ Compare(data_cordon, data[i])
     THEN Max(d[i], dp_cordon + 1)
     ELSE d[i]]

\* C1: on return LIS::compute holds the length of the longest strictly
\* increasing subsequence of the input, the value of the naive O(n^2) DP.
C1_LisEqualsReference ==
  pc = "done" =>
    /\ maxResult = refSol(data, n)
    /\ maxResult = LongestIncreasing(data, n)
C1_Witness == pc = "done" /\ n = 4 /\ maxResult = 2 /\ data[0] > data[1]

\* C6: whatever the interleaving of the reads and writes of the iterations,
\* the dp array after the relax loop is the one the sequential loop produces;
\* an iteration reads and writes its own cell only, never the cordon's.
C6_RelaxOrderIndependent ==
  pc = "relax" =>
    /\ RelaxJoined => dp = RelaxSeq(dpBefore)
    /\ \A i \in 0 .. (n - 1) :
         /\ iter[i] = "todo" => dp[i] = dpBefore[i]
         /\ iter[i] = "read" => dp[i] = dpBefore[i] /\ tmp[TmpSlot(i)] = dpBefore[i]
         /\ iter[i] # "skip" => i # cordonIdx
    /\ dp_cordon = dp[cordonIdx]
C6_Witness ==
  /\ pc = "relax" /\ RelaxJoined /\ dp # dpBefore
  /\ Cardinality({i \in 0 .. (n - 1) : dp[i] # dpBefore[i]}) >= 2

\* C7: a finalised flag is never cleared, every round selects an index that
\* is not finalised yet, and on return every state is finalised.
C7_FinalisedOnce ==
  [][/\ \A i \in 0 .. (n - 1) : finalized[i] => finalized'[i]
     /\ (pc = "select" /\ pc' = "relax") => ~finalized[cordonIdx']
     /\ (pc = "relax" /\ pc' = "select") =>
          /\ ~finalized[cordonIdx] /\ finalized'[cordonIdx]
          /\ \A i \in 0 .. (n - 1) : i # cordonIdx => finalized'[i] = finalized[i]
     /\ pc' = "done" => \A i \in 0 .. (n - 1) : finalized'[i]]_vars
C7_Witness ==
  /\ pc = "done" /\ n = 3 /\ numFinalized = 3
  /\ \A i \in 0 .. (n - 1) : finalized[i]

\* C12: on return the number of rounds the scheduler loop ran (numFinalized
\* is incremented once per round) equals the returned length, and is at
\* most n.
C12_RoundsEqualLength ==
  pc = "done" => numFinalized = maxResult /\ numFinalized <= n

\* ------------------------------------------------- prefix-min cascade (LCS)
\* read(i): the head of row i, or the sentinel when the row is exhausted
readOffByOne(ar, nw, i) ==
  IF nw[i] + 1 >= Len(ar[i]) THEN Infinity ELSE At(ar[i], nw[i])
read(ar, nw, i) == IF nw[i] >= Len(ar[i]) THEN Infinity ELSE At(ar[i], nw[i])

\* while (now[l] < ys.size() && ys[now[l]] <= pre) now[l]++
RECURSIVE LinearStepStrict(_, _, _)
LinearStepStrict(ys, k, pre) ==
  IF k < Len(ys) /\ At(ys, k) < pre THEN LinearStepStrict(ys, k + 1, pre) ELSE k
RECURSIVE LinearStep(_, _, _)
LinearStep(ys, k, pre) ==
  IF k < Len(ys) /\ At(ys, k) <= pre THEN LinearStep(ys, k + 1, pre) ELSE k

\* std::upper_bound(first, first + len, val) by bisection
\* std::lower_bound: the bisection that stops at the first element >= val
RECURSIVE lower_bound(_, _, _, _)
lower_bound(ys, first, len, val) ==
  IF len > 0
  THEN LET half == len \div 2
           middle == first + half
       IN IF val <= At(ys, middle)
          THEN lower_bound(ys, first, half, val)
          ELSE lower_bound(ys, middle + 1, len - half - 1, val)
  ELSE first

RECURSIVE upper_bound(_, _, _, _)
upper_bound(ys, first, len, val) ==
  IF len > 0
  THEN LET half == len \div 2
           middle == first + half
       IN IF val < At(ys, middle)
          THEN upper_bound(ys, first, half, val)
          ELSE upper_bound(ys, middle + 1, len - half - 1, val)
  ELSE first

\* the hybrid search of the leaf case
LeafAdvanceStuck(ys, k, pre) == k
LeafAdvance(ys, k, pre) ==
  IF k + LookAhead >= Len(ys) \/ At(ys, k + LookAhead) > pre
  THEN LinearStep(ys, k, pre)
  ELSE upper_bound(ys, k, Len(ys) - k, pre)

\* the threshold handed to the right child, sequential and spawning branch
RightThresholdSeqStale(lc_val, pre) == pre
RightThresholdSeq(lc_val, pre) == lc_val
RightThresholdParStale(lc_val, pre) == pre
RightThresholdPar(lc_val, pre) == lc_val

\* prefix_min_recursive run sequentially on st = [tree, now]
RECURSIVE prefix_min_recursive(_, _, _, _, _)
prefix_min_recursive(st, x, l, r, pre) ==
  IF st.tree[x] > pre
  THEN st
  ELSE IF l = r
  THEN LET nw == [st.now EXCEPT ![l] = LeafAdvance(arrows[l], st.now[l], pre)]
       IN [tree |-> [st.tree EXCEPT ![x] = read(arrows, nw, l)], now |-> nw]
  ELSE LET mid == (l + r) \div 2
           s1 == IF st.tree[x] = st.tree[rc(x)]
                 THEN IF st.tree[lc(x)] <= pre /\ st.tree[lc(x)] < Infinity
                      THEN LET lc_val == st.tree[lc(x)]
                               a == prefix_min_recursive(st, lc(x), l, mid, pre)
                           IN prefix_min_recursive(a, rc(x), mid + 1, r,
                                                   RightThresholdSeq(lc_val, pre))
                      ELSE prefix_min_recursive(st, rc(x), mid + 1, r, pre)
                 ELSE prefix_min_recursive(st, lc(x), l, mid, pre)
       IN [s1 EXCEPT !.tree[x] = Min(s1.tree[lc(x)], s1.tree[rc(x)])]

\* prefix_min() on a valid prefix-mode tree, run sequentially
prefix_min(st, sz) == prefix_min_recursive(st, 0, 0, sz - 1, Infinity)

\* the arrow-head constructor: now = 0, leaves = heads
ArrowTree(ar, sz) ==
  LET nw == [i \in 0 .. (sz - 1) |-> 0]
  IN [tree |-> build([i \in 0 .. (sz - 1) |-> read(ar, nw, i)], sz), now |-> nw]

\* ---- the cascade step by step: one activation per visited node
Nodes == DOMAIN frames
\* the range [l, r] the recursion carries down to node x
RECURSIVE RangeOf(_)
RangeOf(x) ==
  IF x = 0
  THEN <<0, n - 1>>
  ELSE LET p == (x - 1) \div 2
           pr == RangeOf(p)
           mid == (pr[1] + pr[2]) \div 2
       IN IF x = lc(p) THEN <<pr[1], mid>> ELSE <<mid + 1, pr[2]>>
LeftOf(x) == RangeOf(x)[1]
RightOf(x) == RangeOf(x)[2]
IsLeaf(x) == LeftOf(x) = RightOf(x)

Idle == [pc |-> "idle", pre |-> 0, lc_val |-> 0]
Returned == [pc |-> "done", pre |-> 0, lc_val |-> 0]
Call(pre) == [pc |-> "call", pre |-> pre, lc_val |-> 0]

\* the nodes with an activation that runs, waits or has just returned
Busy == {x \in Nodes : frames[x].pc # "idle"}

\* bool do_parallel = (r - l > granularity) && parallel
do_parallel(x) == (RightOf(x) - LeftOf(x) > granularity) /\ parallel

\* the entry of prefix_min_recursive(x, l, r, pre): prune, leaf, or descend
Enter(x) ==
  /\ pc = "cascade" /\ x \in Nodes /\ frames[x].pc = "call"
  /\ LET pre == frames[x].pre
         l == LeftOf(x)
     IN IF tree[x] > pre
        THEN /\ frames' = [frames EXCEPT ![x] = Returned]
             /\ UNCHANGED <<tree, now>>
        ELSE IF IsLeaf(x)
        THEN LET nw == [now EXCEPT ![l] = LeafAdvance(arrows[l], now[l], pre)]
             IN /\ now' = nw
                /\ tree' = [tree EXCEPT ![x] = read(arrows, nw, l)]
                /\ frames' = [frames EXCEPT ![x] = Returned]
        ELSE /\ UNCHANGED <<tree, now>>
             /\ IF tree[x] = tree[rc(x)]
                THEN IF tree[lc(x)] <= pre /\ tree[lc(x)] < Infinity
                     THEN LET lc_val == tree[lc(x)]
                          IN IF do_parallel(x)
                             THEN frames' = [frames EXCEPT
                                    ![x] = [pc |-> "par", pre |-> pre, lc_val |-> lc_val],
                                    ![lc(x)] = Call(pre),
                                    ![rc(x)] = Call(RightThresholdPar(lc_val, pre))]
                             ELSE frames' = [frames EXCEPT
                                    ![x] = [pc |-> "seqL", pre |-> pre, lc_val |-> lc_val],
                                    ![lc(x)] = Call(pre)]
                     ELSE frames' = [frames EXCEPT
                            ![x] = [pc |-> "onlyR", pre |-> pre, lc_val |-> 0],
                            ![rc(x)] = Call(pre)]
                ELSE frames' = [frames EXCEPT
                       ![x] = [pc |-> "onlyL", pre |-> pre, lc_val |-> 0],
                       ![lc(x)] = Call(pre)]
  /\ UNCHANGED <<pc, ret, n, arrows, prefix_mode, parallel, granularity, thrown,
                 removed,
                 lisVars,
                 data1, data2, round, nowBefore, glwsVars, ttVars>>

\* sequential branch: the left call has returned, call the right child
StartRight(x) ==
  /\ pc = "cascade" /\ x \in Nodes /\ frames[x].pc = "seqL"
  /\ frames[lc(x)].pc = "done"
  /\ frames' = [frames EXCEPT
       ![x] = [pc |-> "seqR", pre |-> frames[x].pre, lc_val |-> 0],
       ![lc(x)] = Idle,
       ![rc(x)] = Call(RightThresholdSeq(frames[x].lc_val, frames[x].pre))]
  /\ UNCHANGED <<pc, ret, treeVars, lisVars, data1, data2, round, nowBefore, glwsVars, ttVars>>

\* the calls an activation waits for have returned (taskwait / cilk_sync)
JoinedNoWait(x) ==
  \/ frames[x].pc \in {"par", "seqR", "onlyR"} /\ frames[rc(x)].pc = "done"
  \/ frames[x].pc = "onlyL" /\ frames[lc(x)].pc = "done"
Joined(x) ==
  \/ frames[x].pc = "par" /\ frames[lc(x)].pc = "done" /\ frames[rc(x)].pc = "done"
  \/ frames[x].pc \in {"seqR", "onlyR"} /\ frames[rc(x)].pc = "done"
  \/ frames[x].pc = "onlyL" /\ frames[lc(x)].pc = "done"

\* tree[x] = std::min(tree[lc(x)], tree[rc(x)]), then return
Combine(x) ==
  /\ pc = "cascade" /\ x \in Nodes /\ ~IsLeaf(x) /\ Joined(x)
  /\ tree' = [tree EXCEPT ![x] = Min(tree[lc(x)], tree[rc(x)])]
  /\ frames' = [y \in Nodes |->
       IF y = x THEN Returned
       ELSE IF y \in {lc(x), rc(x)} /\ frames[y].pc = "done" THEN Idle
       ELSE frames[y]]
  /\ UNCHANGED <<pc, ret, n, now, arrows, prefix_mode, parallel, granularity, thrown,
                 removed,
                 lisVars, data1, data2, round, nowBefore, glwsVars, ttVars>>

\* ------------------------------------------------------------------- LCS
\* data2_to_indices[v] from position j on, ascending
RECURSIVE IndicesOf(_, _, _)
IndicesOf(d2, v, j) ==
  IF j >= Len(d2)
  THEN <<>>
  ELSE (IF At(d2, j) = v THEN <<j>> ELSE <<>>) \o IndicesOf(d2, v, j + 1)

\* the arrows LCS::compute builds
BuildArrows(d1, d2) == [i \in 0 .. (Len(d1) - 1) |-> IndicesOf(d2, At(d1, i), 0)]

\* strictly increasing lists of column indices below cols
IncreasingRows(cols) ==
  {ys \in UNION {[1 .. k -> 0 .. (cols - 1)] : k \in 0 .. cols} :
     \A a \in 1 .. Len(ys) : \A b \in 1 .. Len(ys) : a < b => ys[a] < ys[b]}

\* rows long enough for the bisection of the hybrid search, and the
\* one-element rows whose head lies beyond the look-ahead
Dense(k) == [j \in 1 .. k |-> j - 1]
LongRows == {Dense(LookAhead + 1), Dense(LookAhead + 2),
             <<LookAhead>>, <<LookAhead + 1>>}

\* lists of column indices below cols in any order, and the sorted ones
AnyRows(cols) == UNION {[1 .. k -> 0 .. (cols - 1)] : k \in 0 .. cols}
Sorted(ys) == \A a \in 1 .. (Len(ys) - 1) : ys[a] <= ys[a + 1]

Words(maxlen, maxsym) == UNION {[1 .. k -> 0 .. maxsym] : k \in 1 .. maxlen}

\* the configurations of parallel and granularity
Configs == {<<FALSE, 0>>, <<TRUE, 0>>, <<TRUE, 1>>}

\* compute_arrows: the tree over the heads, round = 0
StartArrows(ar, sz, cfg) ==
  /\ n = sz
  /\ arrows = ar
  /\ tree = ArrowTree(ar, sz).tree
  /\ now = ArrowTree(ar, sz).now
  /\ prefix_mode = TRUE
  /\ parallel = cfg[1] /\ granularity = cfg[2]
  /\ thrown = "none" /\ removed = {}
  /\ round = 0
  /\ nowBefore = ArrowTree(ar, sz).now
  /\ frames = [x \in {t[1] : t \in NodesOf(0, 0, sz - 1)} |-> Idle]
  /\ pc = "loop" /\ ret = -1
  /\ IdleTT
  /\ IdleLIS /\ IdleGLWS

\* LCS::compute(data1, data2) on non-empty sequences
InitLCS ==
  /\ data1 \in Words(MaxLen, MaxSym)
  /\ data2 \in Words(MaxLen, MaxSym)
  /\ \E cfg \in Configs :
       StartArrows(BuildArrows(data1, data2), Len(data1), cfg)

\* LCS::compute_arrows(arrows) on rows that are strictly increasing
InitArrows ==
  /\ data1 = <<>> /\ data2 = <<>>
  /\ \/ \E sz \in 1 .. MaxRows :
          \E ar \in [0 .. (sz - 1) -> IncreasingRows(MaxCols)] :
            \E cfg \in Configs : StartArrows(ar, sz, cfg)
     \/ \E sz \in 2 .. MaxLongRows :
          \E ar \in [0 .. (sz - 1) -> LongRows] :
            \E cfg \in Configs : StartArrows(ar, sz, cfg)

\* LCS::compute_arrows(arrows) on the rows a caller hands in, sorted or not
InitRawArrows ==
  /\ data1 = <<>> /\ data2 = <<>>
  /\ \E sz \in 1 .. MaxRows :
       \E ar \in [0 .. (sz - 1) -> AnyRows(MaxCols)] :
         \E cfg \in Configs : StartArrows(ar, sz, cfg)

\* while (tree->global_min() < max) { round++; tree->prefix_min(); }
LoopTest ==
  /\ pc = "loop"
  /\ IF global_min(tree) < Infinity
     THEN /\ round' = round + 1
          /\ nowBefore' = now
          /\ frames' = [frames EXCEPT ![0] = Call(Infinity)]
          /\ pc' = "cascade" /\ ret' = ret
     ELSE /\ pc' = "done" /\ ret' = round
          /\ UNCHANGED <<round, nowBefore, frames>>
  /\ UNCHANGED <<treeVars, lisVars, data1, data2, glwsVars, ttVars>>

\* prefix_min() returns to the round loop
CascadeReturn ==
  /\ pc = "cascade" /\ frames[0].pc = "done"
  /\ frames' = [frames EXCEPT ![0] = Idle]
  /\ pc' = "loop" /\ ret' = ret
  /\ UNCHANGED <<treeVars, lisVars, data1, data2, round, nowBefore, glwsVars, ttVars>>

NextLCS ==
  \/ LoopTest
  \/ \E x \in 0 .. (4 * MaxRows + 4 * MaxLen) : Enter(x)
  \/ \E x \in 0 .. (4 * MaxRows + 4 * MaxLen) : StartRight(x)
  \/ \E x \in 0 .. (4 * MaxRows + 4 * MaxLen) : Combine(x)
  \/ CascadeReturn

SpecLCS == InitLCS /\ [][NextLCS]_vars
SpecArrows == InitArrows /\ [][NextLCS]_vars
SpecRawArrows == InitRawArrows /\ [][NextLCS]_vars
\* every started call and every spawned task runs to its end
FairArrows == SpecArrows /\ WF_vars(NextLCS)

\* ------------------------------------------------- SegmentTree, call by call
\* SegmentTree(arr, ...): a key-mode tree over a non-empty array
KeyTreeUpTo(maxn) ==
  /\ n \in 1 .. maxn
  /\ \E arr \in [0 .. (n - 1) -> 0 .. MaxKey] : tree = build(arr, n)
  /\ now = <<>> /\ arrows = <<>>
  /\ prefix_mode = FALSE /\ parallel = FALSE /\ granularity = 0
  /\ thrown = "none" /\ removed = {}
  /\ pc = "api" /\ ret = -1
  /\ IdleTT
  /\ IdleLIS /\ IdleLCS /\ IdleGLWS

\* SegmentTree(_arrows, ...): a prefix-mode tree over the heads of the rows
ArrowTreeUpTo(maxrows) ==
  /\ n \in 1 .. maxrows
  /\ arrows \in [0 .. (n - 1) -> IncreasingRows(MaxCols)]
  /\ tree = ArrowTree(arrows, n).tree
  /\ now = ArrowTree(arrows, n).now
  /\ prefix_mode = TRUE /\ parallel = FALSE /\ granularity = 0
  /\ thrown = "none" /\ removed = {}
  /\ pc = "api" /\ ret = -1
  /\ IdleTT
  /\ IdleLIS /\ IdleLCS /\ IdleGLWS

InitKeyTree == KeyTreeUpTo(MaxN)
InitArrowTree == ArrowTreeUpTo(MaxRows)
InitTree == InitKeyTree \/ InitArrowTree

\* update(pos, new_val); pos >= n throws and leaves the tree alone.
\* The drivers of the repository update and rebuild key-mode trees only.
ApiUpdate(pos, new_val) ==
  /\ pc = "api" /\ ~prefix_mode
  /\ IF pos >= n
     THEN tree' = tree /\ thrown' = "out_of_range" /\ removed' = removed
     ELSE /\ tree' = update_recursive(tree, 0, 0, n - 1, pos, new_val)
          /\ thrown' = "none"
          /\ removed' = removed \ {pos}
  /\ UNCHANGED <<pc, ret, n, now, arrows, prefix_mode, parallel, granularity,
                 lisVars, lcsVars, glwsVars, ttVars>>

\* remove(pos); pos >= n throws and leaves the tree alone
ApiRemove(pos) ==
  /\ pc = "api"
  /\ IF pos >= n
     THEN tree' = tree /\ thrown' = "out_of_range" /\ removed' = removed
     ELSE /\ tree' = remove(tree, n, pos)
          /\ thrown' = "none"
          /\ removed' = IF prefix_mode THEN removed ELSE removed \cup {pos}
  /\ UNCHANGED <<pc, ret, n, now, arrows, prefix_mode, parallel, granularity,
                 lisVars, lcsVars, glwsVars, ttVars>>

\* build(arr) with 1 <= arr.size() <= n
ApiBuild(arr) ==
  /\ pc = "api" /\ ~prefix_mode
  /\ Cardinality(DOMAIN arr) <= n
  /\ tree' = build_recursive(tree, arr, Cardinality(DOMAIN arr), 0, 0, n - 1)
  /\ thrown' = "none" /\ removed' = {}
  /\ UNCHANGED <<pc, ret, n, now, arrows, prefix_mode, parallel, granularity,
                 lisVars, lcsVars, glwsVars, ttVars>>

\* prefix_min(); outside prefix mode, or with a cursor past its row, it throws
ApiPrefixMin ==
  /\ pc = "api"
  /\ IF ~prefix_mode
     THEN thrown' = "runtime_error" /\ UNCHANGED <<tree, now>>
     ELSE IF \E i \in 0 .. (n - 1) : now[i] > Len(arrows[i])
     THEN thrown' = "invalid_argument" /\ UNCHANGED <<tree, now>>
     ELSE LET st == prefix_min([tree |-> tree, now |-> now], n)
          IN tree' = st.tree /\ now' = st.now /\ thrown' = "none"
  /\ UNCHANGED <<pc, ret, n, arrows, prefix_mode, parallel, granularity, removed,
                 lisVars, lcsVars, glwsVars, ttVars>>

NextTree ==
  \/ \E pos \in 0 .. MaxN : \E v \in 0 .. MaxKey : ApiUpdate(pos, v)
  \/ \E pos \in 0 .. MaxN : ApiRemove(pos)
  \/ \E k \in 1 .. MaxBuild : \E arr \in [0 .. (k - 1) -> 0 .. MaxKey] : ApiBuild(arr)
  \/ ApiPrefixMin

\* a tree driven call by call
SpecTree == InitTree /\ [][NextTree]_vars

\* query_recursive(x, l, r, ql, qr): the minimum over [ql, qr]
RECURSIVE query_recursive(_, _, _, _, _, _)
query_recursive(t, x, l, r, ql, qr) ==
  IF r < ql \/ l > qr
  THEN Infinity
  ELSE IF l >= ql /\ r <= qr
  THEN t[x]
  ELSE LET mid == (l + r) \div 2
           left_min == query_recursive(t, lc(x), l, mid, ql, qr)
           right_min == query_recursive(t, rc(x), mid + 1, r, ql, qr)
       IN Min(left_min, right_min)

\* the range test of query: if (l > r || r >= n) throw
BadRangeRightOnly(l, r) == r >= n
BadRange(l, r) == l > r \/ r >= n

\* query(l, r): const; an invalid range throws
ApiQuery(l, r) ==
  /\ pc = "api"
  /\ IF BadRange(l, r)
     THEN thrown' = "invalid_argument" /\ ret' = ret
     ELSE thrown' = "none" /\ ret' = query_recursive(tree, 0, 0, n - 1, l, r)
  /\ UNCHANGED <<pc, tree, n, now, arrows, prefix_mode, parallel, granularity,
                 removed, lisVars, lcsVars, glwsVars, ttVars>>

NextTreeCalls ==
  \/ NextTree
  \/ \E l \in 0 .. MaxCall : \E r \in 0 .. MaxCall : ApiQuery(l, r)

\* a small tree driven call by call, queries and rejected calls included
InitTreeCalls == KeyTreeUpTo(MaxCall) \/ ArrowTreeUpTo(MaxCall)
SpecTreeCalls == InitTreeCalls /\ [][NextTreeCalls]_vars

\* ------------------------------------------------------ LCS: the reference
\* the inner loop of lcs_dp_naive over j, on the rolling row dpv
RECURSIVE NaiveInner(_, _, _, _, _, _)
NaiveInner(seq1, seq2, i, j, dpv, prev) ==
  IF j > Len(seq2)
  THEN dpv
  ELSE LET temp == dpv[j]
           v == IF At(seq1, i - 1) = At(seq2, j - 1)
                THEN prev + 1
                ELSE Max(dpv[j], dpv[j - 1])
       IN NaiveInner(seq1, seq2, i, j + 1, [dpv EXCEPT ![j] = v], temp)

RECURSIVE NaiveOuter(_, _, _, _)
NaiveOuter(seq1, seq2, i, dpv) ==
  IF i > Len(seq1)
  THEN dpv
  ELSE NaiveOuter(seq1, seq2, i + 1, NaiveInner(seq1, seq2, i, 1, dpv, 0))

lcs_dp_naive(seq1, seq2) ==
  LET a == IF Len(seq1) < Len(seq2) THEN seq2 ELSE seq1
      b == IF Len(seq1) < Len(seq2) THEN seq1 ELSE seq2
  IN NaiveOuter(a, b, 1, [j \in 0 .. Len(b) |-> 0])[Len(b)]

\* the matches (i, j) and the longest chain of them rising in both indices
Matches == {m \in (0 .. (Len(data1) - 1)) \X (0 .. (Len(data2) - 1)) :
              At(data1, m[1]) = At(data2, m[2])}
RECURSIVE ChainEndingAt(_)
ChainEndingAt(m) ==
  LET before == {q \in Matches : q[1] < m[1] /\ q[2] < m[2]}
      lens == {ChainEndingAt(q) : q \in before} \cup {0}
  IN 1 + CHOOSE k \in lens : \A k2 \in lens : k2 <= k
LongestChain ==
  LET lens == {ChainEndingAt(m) : m \in Matches} \cup {0}
  IN CHOOSE k \in lens : \A k2 \in lens : k2 <= k

\* the state after k sequential rounds, and the number of sequential rounds
RECURSIVE SeqAfter(_)
SeqAfter(k) ==
  IF k = 0 THEN ArrowTree(arrows, n) ELSE prefix_min(SeqAfter(k - 1), n)
RECURSIVE SeqRounds(_, _)
SeqRounds(st, k) ==
  IF global_min(st.tree) < Infinity
  THEN SeqRounds(prefix_min(st, n), k + 1)
  ELSE k

\* the memory a pending step of the activation at node x reads and writes
TreeLoc(x) == <<"tree", x>>
NowLoc(i) == <<"now", i>>
Subtree(x) == {t[1] : t \in NodesOf(x, LeftOf(x), RightOf(x))}
Own(x) == {TreeLoc(y) : y \in Subtree(x)}
            \cup {NowLoc(i) : i \in LeftOf(x) .. RightOf(x)}
Reads(x) ==
  IF frames[x].pc = "call"
  THEN {TreeLoc(x)} \cup
       (IF tree[x] > frames[x].pre THEN {}
        ELSE IF IsLeaf(x) THEN {NowLoc(LeftOf(x))}
        ELSE {TreeLoc(lc(x)), TreeLoc(rc(x))})
  ELSE IF ~IsLeaf(x) /\ Joined(x) THEN {TreeLoc(lc(x)), TreeLoc(rc(x))}
  ELSE {}
Writes(x) ==
  IF frames[x].pc = "call"
  THEN IF tree[x] <= frames[x].pre /\ IsLeaf(x)
       THEN {NowLoc(LeftOf(x)), TreeLoc(x)}
       ELSE {}
  ELSE IF ~IsLeaf(x) /\ Joined(x) THEN {TreeLoc(x)}
  ELSE {}

TreeOK ==
  \A t \in NodesOf(0, 0, n - 1) :
    t[2] < t[3] => tree[t[1]] = Min(tree[lc(t[1])], tree[rc(t[1])])
RootIsMin ==
  LET leaves == {tree[t[1]] : t \in {u \in NodesOf(0, 0, n - 1) : u[2] = u[3]}}
  IN tree[0] \in leaves /\ \A v \in leaves : tree[0] <= v

\* C2: LCS::compute returns the LCS length: what lcs_dp_naive computes and
\* the length of the longest chain of matches rising in row and column.
C2_LcsEqualsNaive ==
  pc = "done" =>
    /\ round = lcs_dp_naive(data1, data2)
    /\ round = LongestChain
C2_Witness ==
  /\ pc = "done" /\ round = 2 /\ Len(data1) = 3 /\ Len(data2) = 3
  /\ data1 # data2 /\ parallel

\* C4: between cascades the tree and the cursors are what the same number of
\* sequential prefix_min calls produce, whatever the interleaving, and the
\* returned round count is the sequential one for every parallel/granularity.
C4_ParallelEqualsSequential ==
  /\ pc \in {"loop", "done"} =>
       /\ tree = SeqAfter(round).tree
       /\ now = SeqAfter(round).now
  /\ pc = "done" => round = SeqRounds(ArrowTree(arrows, n), 0)
C4_Witness ==
  /\ pc = "loop" /\ parallel /\ granularity = 0 /\ round = 1 /\ n >= 3
  /\ now[0] >= 1 /\ now[1] >= 1 /\ now[n - 1] >= 1

\* C5: no two steps that can run at the same time touch a common location
\* unless both only read it; every step stays inside the subtree and the
\* rows of its node; the right child's threshold is the left minimum read
\* before the spawn; a node is recombined only when nothing runs below it.
C5_NoDataRace ==
  pc = "cascade" =>
    /\ \A x \in Busy : \A y \in Busy \ {x} :
         Writes(x) \cap (Reads(y) \cup Writes(y)) = {}
    /\ \A x \in Busy : Reads(x) \cup Writes(x) \subseteq Own(x)
    /\ \A x \in Busy : frames[x].pc = "par" =>
         /\ Own(lc(x)) \cap Own(rc(x)) = {}
         /\ frames[rc(x)].pc = "call" => frames[rc(x)].pre = frames[x].lc_val
    /\ \A x \in Busy : ~IsLeaf(x) /\ Joined(x) =>
         \A y \in Subtree(x) \ {x} : frames[y].pc \in {"idle", "done"}
C5_Witness ==
  /\ pc = "cascade"
  /\ \E x \in Nodes :
       /\ frames[x].pc = "par"
       /\ frames[lc(x)].pc = "call" /\ frames[rc(x)].pc = "call"
       /\ Writes(lc(x)) # {} /\ Writes(rc(x)) # {}

RemoveStep(pos) ==
  /\ pos < n
  /\ prefix_mode \/ removed' = removed \cup {pos}
  /\ pos \in removed => tree' = tree
  /\ ApiRemove(pos)

\* C17: remove(i) with 0 <= i < n sets leaf i to +infinity, changes no other
\* leaf and rewrites only nodes on the path from the root to leaf i;
\* afterwards global_min() is the minimum of the remaining leaves.
C17_RemoveFrame ==
  [][\A pos \in 0 .. MaxN :
       RemoveStep(pos) =>
         LET after == [j \in 0 .. (n - 1) |-> LeafVal(tree', n, j)]
             path == PathTo(0, 0, n - 1, pos)
         IN /\ after[pos] = Infinity
            /\ \A j \in (0 .. (n - 1)) \ {pos} : after[j] = LeafVal(tree, n, j)
            /\ DOMAIN tree' = DOMAIN tree
            /\ \A x \in (DOMAIN tree) \ path : tree'[x] = tree[x]
            /\ \A j \in 0 .. (n - 1) : global_min(tree') <= after[j]
            /\ \E j \in 0 .. (n - 1) : global_min(tree') = after[j]]_vars
C17_Witness ==
  /\ pc = "api" /\ n = 3 /\ thrown = "none"
  /\ LeafVal(tree, n, 0) = 2 /\ LeafVal(tree, n, 1) = Infinity
  /\ LeafVal(tree, n, 2) = 1 /\ global_min(tree) = 1

\* C18: in every LIS round the cordon is selected first, then all relax
\* writes of the round happen, then the cordon is finalised and removed from
\* the tree: no relax write of a round is outstanding when its removal
\* happens, and the next cordon query sees every earlier removal.
C18_RoundEventOrder ==
  [][/\ cordonIdx' # cordonIdx => pc = "select" /\ pc' = "relax"
     /\ (pc = "select" /\ pc' = "relax") =>
          /\ \A i \in 0 .. (n - 1) :
               finalized[i] <=> LeafVal(tree, n, i) = Infinity
          /\ cordonIdx >= 0 => finalized[cordonIdx]
          /\ ~finalized[cordonIdx']
     /\ dp' # dp =>
          /\ pc = "relax" /\ pc' = "relax"
          /\ ~finalized[cordonIdx]
          /\ LeafVal(tree, n, cordonIdx) < Infinity
          /\ tree' = tree /\ finalized' = finalized
     /\ (tree' # tree \/ finalized' # finalized) =>
          /\ pc = "relax" /\ pc' = "select"
          /\ \A i \in 0 .. (n - 1) : iter[i] \in {"skip", "done"}
          /\ finalized'[cordonIdx]
          /\ LeafVal(tree', n, cordonIdx) = Infinity
          /\ dp' = dp]_vars
C18_Witness ==
  /\ pc = "relax" /\ numFinalized = 1 /\ dp # dpBefore
  /\ \E i \in 0 .. (n - 1) : iter[i] = "todo"
  /\ \E i \in 0 .. (n - 1) : finalized[i] /\ LeafVal(tree, n, i) = Infinity

\* C19: remove(i) on a leaf that was removed before ends with a failure
\* reported to the caller; it is not accepted silently.
C19_RemoveTwiceReported ==
  [][\A pos \in 0 .. MaxN :
       (ApiRemove(pos) /\ pos \in removed) => thrown' # "none"]_vars

\* C20: an arrows array with a row that is not sorted ascending is reported
\* to the caller as a failure, by the constructor or by prefix_min; no round
\* count is returned for it.
C20_UnsortedRowsRejected ==
  (pc = "done" /\ \E i \in 0 .. (n - 1) : ~Sorted(arrows[i])) => thrown # "none"

\* C21: with granularity <= 0 the cascade spawns no parallel task, even when
\* parallel is set: no node is ever processed with both children running.
C21_ZeroGranularityNoSpawn ==
  (parallel /\ granularity <= 0) =>
    \A x \in DOMAIN frames : frames[x].pc # "par"

C10_CursorMonotone ==
  [][\A i \in DOMAIN now :
       /\ now'[i] >= now[i]
       /\ now'[i] <= Len(arrows[i])
       /\ pc' = "done" => now'[i] = Len(arrows[i])]_vars
C10_Witness ==
  /\ pc = "done" /\ round >= 2
  /\ \E i \in DOMAIN now : now[i] = Len(arrows[i]) /\ Len(arrows[i]) > LookAhead

\* C11: the round loop of compute_arrows terminates: a cascade started while
\* the root is below the sentinel advances at least one cursor, the loop
\* leaves exactly when the root is the sentinel, and it runs at most n rounds.
C11_RoundLoopTerminates ==
  /\ [][/\ (pc = "cascade" /\ pc' = "loop") =>
            \E i \in DOMAIN now : now'[i] > nowBefore[i]
        /\ (pc = "loop" /\ pc' = "cascade") => global_min(tree) < Infinity
        /\ (pc = "loop" /\ pc' = "done") => global_min(tree) = Infinity
        /\ round' <= n]_vars
  /\ <>(pc = "done")
C11_Witness == pc = "done" /\ n >= 2 /\ round = n /\ nowBefore # now

\* ------------------------------------------------------------ Convex-GLWS
\* the pairs (j, i) a cost function is asked about
Pairs(sz) == {p \in (0 .. sz) \X (0 .. sz) : p[1] < p[2]}

\* the convex Monge condition: the best predecessor never moves left
IsMonge(c, sz) ==
  \A a \in 0 .. sz : \A b \in 0 .. sz : \A x \in 0 .. sz : \A y \in 0 .. sz :
    (a < b /\ b < x /\ x < y) =>
      c[<<a, x>>] + c[<<b, y>>] <= c[<<a, y>>] + c[<<b, x>>]

costFunc(j, i) == cost[<<j, i>>]

\* findBest of utils.h: the first interval holding i, or the fallback 0
findBest(i, Bs) ==
  LET hits == {k \in 1 .. Len(Bs) : i >= Bs[k].l /\ i <= Bs[k].r}
  IN IF hits = {}
     THEN 0
     ELSE Bs[CHOOSE k \in hits : \A h \in hits : k <= h].j

\* the inner scan of findCordon: the first i >= from that j relaxes, or n + 1
RECURSIVE ScanRelax(_, _, _)
ScanRelaxFromSelf(j, Dj, from) == j
ScanRelax(j, Dj, from) ==
  IF from > n
  THEN n + 1
  ELSE LET current_best == findBest(from, B)
           current_val == D[current_best] + costFunc(current_best, from)
           candidate_val == Dj + costFunc(j, from)
       IN IF cmp(candidate_val, current_val)
          THEN from
          ELSE ScanRelax(j, Dj, from + 1)

\* s_j of findCordon for one state j of the probed window
SOf(j) ==
  LET bestj == findBest(j, B)
      Ej == D[bestj] + costFunc(bestj, j)
  IN IF cmp(Ej, D[j]) THEN ScanRelax(j, Ej, j + 1) ELSE n + 1

MinOf(S) == CHOOSE m \in S : \A v \in S : m <= v

\* the doubling loop of findCordon from round t on, cordon being c so far
RECURSIVE findCordonFrom(_, _)
findCordonFrom(t, c) ==
  IF glws_now + 2 ^ t <= n
  THEN LET l == glws_now + 2 ^ (t - 1)
           r == Min(n, glws_now + 2 ^ t - 1)
           c2 == MinOf({c} \cup {SOf(j) : j \in l .. r})
       IN IF c2 <= r + 1 THEN c2 ELSE findCordonFrom(t + 1, c2)
  ELSE c

findCordon == findCordonFrom(1, n + 1)

\* the windows [l, r] the doubling loop of findCordon probes from round t on
RECURSIVE ProbedFrom(_, _)
ProbedFrom(t, c) ==
  IF glws_now + 2 ^ t <= n
  THEN LET l == glws_now + 2 ^ (t - 1)
           r == Min(n, glws_now + 2 ^ t - 1)
           c2 == MinOf({c} \cup {SOf(j) : j \in l .. r})
       IN {<<l, r>>} \cup (IF c2 <= r + 1 THEN {} ELSE ProbedFrom(t + 1, c2))
  ELSE {}
Probed == ProbedFrom(1, n + 1)

\* the linear scan of findIntervals: the best predecessor of i in [jl, jr]
\* a scan that stops at the first candidate that does not improve
RECURSIVE BestScanStopEarly(_, _, _, _, _)
BestScanStopEarly(Dv, i, j, jr, best) ==
  IF j > jr
  THEN best
  ELSE IF cmp(Dv[j] + costFunc(j, i), Dv[best] + costFunc(best, i))
  THEN BestScanStopEarly(Dv, i, j + 1, jr, j)
  ELSE best
RECURSIVE BestScan(_, _, _, _, _)
BestScan(Dv, i, j, jr, best) ==
  IF j > jr
  THEN best
  ELSE BestScan(Dv, i, j + 1, jr,
                IF cmp(Dv[j] + costFunc(j, i), Dv[best] + costFunc(best, i))
                THEN j ELSE best)

\* every state takes its left neighbour as predecessor
findIntervalsNeighbour(Dv, jl, jr, il, ir) ==
  [k \in 1 .. (ir - il + 1) |-> [l |-> il + k - 1, r |-> il + k - 1, j |-> il + k - 2]]

RECURSIVE findIntervals(_, _, _, _, _)
findIntervals(Dv, jl, jr, il, ir) ==
  IF il > ir
  THEN <<>>
  ELSE IF il = ir
  THEN <<[l |-> il, r |-> ir, j |-> BestScan(Dv, il, jl + 1, jr, jl)]>>
  ELSE LET im == (il + ir) \div 2
           best == BestScan(Dv, im, jl + 1, jr, jl)
       IN findIntervals(Dv, jl, best, il, im - 1)
            \o <<[l |-> im, r |-> im, j |-> best]>>
            \o findIntervals(Dv, best, jr, im + 1, ir)

\* the merging pass of updateBest
RECURSIVE Compact(_, _, _)
CompactSkipped(merged, k, compact) == merged
Compact(merged, k, compact) ==
  IF k > Len(merged)
  THEN compact
  ELSE LET back == compact[Len(compact)]
       IN IF merged[k].j = back.j /\ merged[k].l = back.r + 1
          THEN Compact(merged, k + 1,
                       [compact EXCEPT ![Len(compact)].r = merged[k].r])
          ELSE Compact(merged, k + 1, Append(compact, merged[k]))

SelectIntervalsAll(Bs, c) == Bs
SelectIntervalsStraddle(Bs, c) ==
  LET keep(iv) == iv.l < c IN SelectSeq(Bs, keep)
SelectIntervals(Bs, c) ==
  LET keep(iv) == iv.r < c IN SelectSeq(Bs, keep)

updateBest(Dv, Bs, nw, c) ==
  LET B_new == findIntervals(Dv, nw + 1, c - 1, c, n)
      merged == SelectIntervals(Bs, c) \o B_new
  IN IF merged = <<>> THEN <<>> ELSE Compact(merged, 2, <<merged[1]>>)

\* the window the finalise loop writes
FinaliseRange == (glws_now + 1) .. (cordon - 1)

InitGLWS ==
  /\ n \in 1 .. MaxG
  /\ cost \in {c \in [Pairs(n) -> 0 .. MaxCost] : IsMonge(c, n)}
  /\ D = [i \in 0 .. n |-> IF i = 0 THEN 0 ELSE Infinity]
  /\ glws_now = 0
  /\ B = <<[l |-> 1, r |-> n, j |-> 0]>>
  /\ cordon = 0 /\ fin = {} /\ glws_round = 0
  /\ pc = "findCordon" /\ ret = -1
  /\ IdleTT
  /\ IdleTree /\ IdleLIS /\ IdleLCS

\* while (now < n): cordon = findCordon(now, ...)
FindCordon ==
  /\ pc = "findCordon"
  /\ IF glws_now < n
     THEN /\ cordon' = findCordon
          /\ fin' = {}
          /\ glws_round' = glws_round + 1
          /\ pc' = "finalise" /\ ret' = ret
     ELSE /\ pc' = "done" /\ ret' = D[n]
          /\ UNCHANGED <<cordon, fin, glws_round>>
  /\ UNCHANGED <<treeVars, lisVars, lcsVars, ttVars, cost, D, glws_now, B>>

\* iteration i of the parallel finalise loop
FinaliseOne(i) ==
  /\ pc = "finalise" /\ i \in FinaliseRange /\ i \notin fin
  /\ LET b == findBest(i, B)
     IN D' = [D EXCEPT ![i] = D[b] + costFunc(b, i)]
  /\ fin' = fin \cup {i}
  /\ UNCHANGED <<pc, ret, treeVars, lisVars, lcsVars, ttVars, cost, glws_now, B, cordon,
                 glws_round>>

\* after the loop: updateBest, then now = cordon - 1
UpdateBest ==
  /\ pc = "finalise" /\ fin = FinaliseRange
  /\ B' = updateBest(D, B, glws_now, cordon)
  /\ glws_now' = cordon - 1
  /\ pc' = "findCordon" /\ ret' = ret
  /\ UNCHANGED <<treeVars, lisVars, lcsVars, ttVars, cost, D, cordon, fin,
                 glws_round>>

NextGLWS ==
  \/ FindCordon
  \/ \E i \in 1 .. MaxG : FinaliseOne(i)
  \/ UpdateBest

SpecGLWS == InitGLWS /\ [][NextGLWS]_vars
\* every iteration of the finalise loop and every step of compute is taken
FairGLWS == SpecGLWS /\ WF_vars(NextGLWS)

\* the two solvers that keep a DP array
InitDP == InitLIS \/ InitGLWS
NextDP == NextLIS \/ NextGLWS
SpecDP == InitDP /\ [][NextDP]_vars

\* the O(n^2) reference recurrence D[0] = 0, D[i] = min over j < i
RefD(sz) ==
  LET d[i \in 0 .. sz] ==
        IF i = 0 THEN 0 ELSE MinOf({d[j] + costFunc(j, i) : j \in 0 .. (i - 1)})
  IN d[sz]

\* C3: on return ConvexGLWS::compute holds D[n] of the reference recurrence,
\* for every Monge cost function.
C3_GlwsEqualsReference == pc = "done" /\ cost # <<>> => D[n] = RefD(n)

\* C8: dp[i] never decreases and is not written once finalized[i] holds;
\* D[i] never increases and is not written once i <= now (nor twice in the
\* round that finalises it).
C8_Monotone ==
  [][/\ \A i \in DOMAIN dp :
          /\ dp'[i] >= dp[i]
          /\ finalized[i] => dp'[i] = dp[i]
     /\ \A i \in DOMAIN D :
          /\ D'[i] <= D[i]
          /\ (i <= glws_now \/ i \in fin) => D'[i] = D[i]]_vars
C8_Witness ==
  /\ pc = "finalise" /\ glws_now >= 1 /\ fin # {}
  /\ \E i \in fin : D[i] < Infinity /\ i > glws_now

\* C13: findCordon returns a cordon with now + 2 <= cordon <= n + 1, every
\* round strictly increases now, at most n rounds are run, and compute
\* returns with now = n and D[n] written.
C13_GlwsTerminates ==
  /\ [][/\ (pc = "findCordon" /\ pc' = "finalise") =>
            glws_now + 2 <= cordon' /\ cordon' <= n + 1
        /\ (pc = "finalise" /\ pc' = "findCordon") => glws_now' > glws_now
        /\ glws_round' <= n
        /\ pc' = "done" => glws_now' = n /\ n \in fin' /\ D'[n] < Infinity]_vars
  /\ <>(pc = "done")
C13_Witness == pc = "done" /\ n = 3 /\ glws_round = 2 /\ glws_now = 3

\* C14: after every round (after updateBest) no two adjacent entries of B
\* have the same predecessor j.
C14_BCompact ==
  (pc \in {"findCordon", "done"} /\ glws_round >= 1) =>
    \A k \in 1 .. (Len(B) - 1) : B[k].j # B[k + 1].j
C14_Witness ==
  /\ pc = "findCordon" /\ glws_round >= 1 /\ Len(B) >= 2
  /\ B[1].j # B[2].j

\* B is ordered by l and its intervals are non-empty and pairwise disjoint
BOrdered ==
  /\ \A k \in 1 .. Len(B) : B[k].l <= B[k].r
  /\ \A k \in 1 .. (Len(B) - 1) : B[k].r < B[k + 1].l
\* the intervals of B cover exactly 1 .. r_max, each starting where the
\* previous one ended
BCoversPrefix ==
  /\ Len(B) >= 1 => B[1].l = 1
  /\ \A k \in 1 .. (Len(B) - 1) : B[k + 1].l = B[k].r + 1
\* every state that is not finalised yet lies in an interval of B
BCoversOpen ==
  \A i \in (glws_now + 1) .. n : \E k \in 1 .. Len(B) : B[k].l <= i /\ i <= B[k].r
AfterRound == pc \in {"findCordon", "done"} /\ glws_round >= 1

EmptyLcsFirst(d1, d2) == Len(d1) = 0
EmptyLcs(d1, d2) == Len(d1) = 0 \/ Len(d2) = 0

\* the sequences of at most maxlen symbols, the empty one included
Words0(maxlen, maxsym) == UNION {[1 .. k -> 0 .. maxsym] : k \in 0 .. maxlen}

\* a call of LIS::compute(data): n = data.size()
CallLIS ==
  /\ n \in 0 .. MaxCall
  /\ data \in [0 .. (n - 1) -> 0 .. MaxKey]
  /\ dp = <<>> /\ finalized = <<>> /\ numFinalized = 0
  /\ cordonIdx = -1 /\ maxResult = 0 /\ dp_cordon = 0 /\ data_cordon = 0
  /\ iter = <<>> /\ tmp = <<>> /\ dpBefore = <<>>
  /\ compare = "less"
  /\ pc = "lis.compute" /\ ret = -1
  /\ IdleTT
  /\ IdleTree /\ IdleLCS /\ IdleGLWS

\* a call of LCS::compute(data1, data2, arch, parallel, granularity)
CallLCS ==
  /\ data1 \in Words0(MaxCall, MaxSym)
  /\ data2 \in Words0(MaxCall, MaxSym)
  /\ n = Len(data1)
  /\ \E cfg \in Configs : parallel = cfg[1] /\ granularity = cfg[2]
  /\ tree = <<>> /\ now = <<>> /\ arrows = <<>> /\ prefix_mode = FALSE
  /\ thrown = "none" /\ removed = {}
  /\ round = 0 /\ nowBefore = <<>> /\ frames = <<>>
  /\ pc = "lcs.compute" /\ ret = -1
  /\ IdleTT
  /\ IdleLIS /\ IdleGLWS

\* a call of ConvexGLWS::compute(data, costFunc): n = data.size()
CallGLWS ==
  /\ n \in 0 .. MaxCall
  /\ cost \in {c \in [Pairs(n) -> 0 .. MaxCost] : IsMonge(c, n)}
  /\ D = <<>> /\ glws_now = 0 /\ B = <<>> /\ cordon = 0
  /\ fin = {} /\ glws_round = 0
  /\ pc = "glws.compute" /\ ret = -1
  /\ IdleTT
  /\ IdleTree /\ IdleLIS /\ IdleLCS

InitCompute == CallLIS \/ CallLCS \/ CallGLWS

\* LIS::compute up to the round loop: the early return, or dp, finalized, tree
EnterLIS ==
  /\ pc = "lis.compute"
  /\ IF n = 0
     THEN /\ pc' = "done" /\ ret' = 0
          /\ UNCHANGED <<tree, dp, finalized, iter, tmp, dpBefore>>
     ELSE /\ dp' = [i \in 0 .. (n - 1) |-> 1]
          /\ finalized' = [i \in 0 .. (n - 1) |-> FALSE]
          /\ tree' = build(data, n)
          /\ iter' = [i \in 0 .. (n - 1) |-> "skip"]
          /\ tmp' = [i \in 0 .. (n - 1) |-> 0]
          /\ dpBefore' = dp'
          /\ pc' = "select" /\ ret' = ret
  /\ UNCHANGED <<n, now, arrows, prefix_mode, parallel, granularity, thrown,
                 removed, data, numFinalized, cordonIdx, maxResult, dp_cordon,
                 data_cordon, compare, lcsVars, glwsVars, ttVars>>

\* LCS::compute up to the round loop of compute_arrows: the early return, or
\* the arrows and the tree over their heads
EnterLCS ==
  /\ pc = "lcs.compute"
  /\ IF EmptyLcs(data1, data2)
     THEN /\ pc' = "done" /\ ret' = 0
          /\ UNCHANGED <<tree, now, arrows, prefix_mode, nowBefore, frames>>
     ELSE LET ar == BuildArrows(data1, data2)
              st == ArrowTree(ar, n)
          IN /\ arrows' = ar
             /\ tree' = st.tree
             /\ now' = st.now
             /\ prefix_mode' = TRUE
             /\ nowBefore' = st.now
             /\ frames' = [x \in {t[1] : t \in NodesOf(0, 0, n - 1)} |-> Idle]
             /\ pc' = "loop" /\ ret' = ret
  /\ UNCHANGED <<n, parallel, granularity, thrown, removed, lisVars, data1,
                 data2, round, glwsVars, ttVars>>

\* ConvexGLWS::compute up to the while loop: the early return, or D and B
EnterGLWS ==
  /\ pc = "glws.compute"
  /\ IF n = 0
     THEN /\ pc' = "done" /\ ret' = 0
          /\ UNCHANGED <<D, B>>
     ELSE /\ D' = [i \in 0 .. n |-> IF i = 0 THEN 0 ELSE Infinity]
          /\ B' = <<[l |-> 1, r |-> n, j |-> 0]>>
          /\ pc' = "findCordon" /\ ret' = ret
  /\ UNCHANGED <<treeVars, lisVars, lcsVars, ttVars, cost, glws_now, cordon, fin,
                 glws_round>>

NextCompute ==
  \/ EnterLIS
  \/ EnterLCS
  \/ EnterGLWS
  \/ NextLIS
  \/ NextLCS
  \/ NextGLWS

\* each compute from its call to its return
SpecCompute == InitCompute /\ [][NextCompute]_vars

EmptyInput == data = <<>> /\ cost = <<>> /\ (data1 = <<>> \/ data2 = <<>>)

\* C22: on empty input every compute returns 0 at once: LIS on an empty
\* sequence, LCS when either sequence is empty, GLWS on no states; no tree
\* is built and no round is run.
C22_EmptyInputReturnsZero ==
  EmptyInput =>
    /\ pc \in {"lis.compute", "lcs.compute", "glws.compute", "done"}
    /\ pc = "done" => ret = 0
    /\ tree = <<>> /\ D = <<>> /\ dp = <<>>
    /\ round = 0 /\ numFinalized = 0 /\ glws_round = 0
C22_Witness ==
  /\ pc = "done" /\ ret = 0 /\ tree = <<>>
  /\ Len(data1) = MaxCall /\ data2 = <<>>

\* ------------------------------------------------------ DPProblem::solve
\* what getProblemType looks at: the sizes of state_variables,
\* range_dep_variables, sequences and conditions, the range type of the first
\* range variable, and the types of the first condition
Signatures ==
  [sv : 1 .. 2, rd : 0 .. 1, range_type : {"LIRV", "LVRV"}, seqs : 1 .. 2,
   conds : 1 .. 2, constraint : {"NONE", "EQUAL"}, expr : {"MAX", "STATUS"}]

\* state_variables hold IndVar only, so their type is always IND
getProblemType(sig) ==
  IF /\ sig.sv = 1 /\ sig.rd = 1 /\ sig.range_type = "LIRV" /\ sig.seqs = 1
     /\ sig.conds = 1 /\ sig.constraint = "NONE" /\ sig.expr = "MAX"
  THEN "LIS"
  ELSE IF /\ sig.sv = 2 /\ sig.seqs = 2 /\ sig.conds = 2
          /\ sig.constraint = "EQUAL" /\ sig.expr = "STATUS"
  THEN "LCS"
  ELSE "UNKNOWN"

\* the switch of solve: the backend that is called, or the throw
SwitchDefaultLIS(type) == IF type = "LCS" THEN "lcs.paralay" ELSE "lis.compute"
Switch(type) ==
  CASE type = "LIS" -> "lis.compute"
    [] type = "LCS" -> "lcs.paralay"
    [] OTHER -> "failed"

\* the rows solveLCS builds: j < n is compared, so for j past the end of
\* seq2 the read is out of bounds and the comparison may go either way
SolveArrows(seq1, seq2) ==
  {ar \in [0 .. (Len(seq1) - 1) -> IncreasingRows(Len(seq1))] :
     \A i \in 0 .. (Len(seq1) - 1) : \A j \in 0 .. (Len(seq2) - 1) :
       j < Len(seq1) =>
         ((\E k \in 1 .. Len(ar[i]) : ar[i][k] = j) <=> seq1[i + 1] = seq2[j + 1])}

\* a DPProblem with its first two sequences, before solve()
InitSolve ==
  /\ data1 \in Words0(MaxCall, MaxSym)
  /\ data2 \in Words0(MaxCall, MaxSym)
  /\ n = 0
  /\ round = 0 /\ nowBefore = <<>> /\ frames = <<>>
  /\ pc = "solve" /\ ret = -1
  /\ IdleTT
  /\ IdleTree /\ IdleLIS /\ IdleGLWS

\* solve(): getProblemType, then solveLIS up to the call of LIS::compute,
\* solveLCS up to the call of compute_arrows_paralay, or the throw
Solve(sig) ==
  /\ pc = "solve"
  /\ pc' = Switch(getProblemType(sig))
  /\ CASE pc' = "lis.compute" ->
            /\ data' = [i \in 0 .. (Len(data1) - 1) |-> data1[i + 1]]
            /\ n' = Len(data1)
            /\ parallel' = TRUE /\ granularity' = 1000
            /\ UNCHANGED <<arrows, thrown>>
       [] pc' = "lcs.paralay" ->
            /\ n' = Len(data1)
            /\ arrows' \in SolveArrows(data1, data2)
            /\ UNCHANGED <<data, parallel, granularity, thrown>>
       [] OTHER ->
            /\ thrown' = "runtime_error"
            /\ UNCHANGED <<data, n, arrows, parallel, granularity>>
  /\ UNCHANGED <<ret, tree, now, prefix_mode, removed, dp, finalized,
                 numFinalized, cordonIdx, maxResult, dp_cordon, data_cordon,
                 iter, tmp, compare, dpBefore, lcsVars, glwsVars, ttVars>>

\* ---- LCS::compute_arrows_paralay, as solveLCS calls it
\* lc(x) and rc(x) of lcs.h: the tree of this function is rooted at node 1
lcs_lc(x) == 2 * x
lcs_rc(x) == 2 * x + 1

\* the rows Construct(x, l, r) hands to Read
RECURSIVE ConstructReads(_, _)
ConstructReads(l, r) ==
  IF l = r
  THEN {l}
  ELSE LET mid == (l + r) \div 2
       IN ConstructReads(l, mid) \cup ConstructReads(mid + 1, r)

\* Construct(x, l, r) on the tree t, over the rows ar and the cursors nw
RECURSIVE Construct(_, _, _, _, _, _)
Construct(ar, nw, t, x, l, r) ==
  IF l = r
  THEN [t EXCEPT ![x] = read(ar, nw, l)]
  ELSE LET mid == (l + r) \div 2
           a == Construct(ar, nw, t, lcs_lc(x), l, mid)
           b == Construct(ar, nw, a, lcs_rc(x), mid + 1, r)
       IN [b EXCEPT ![x] = Min(b[lcs_lc(x)], b[lcs_rc(x)])]

\* PrefixMin(x, l, r, pre) on st = [tree, now], ifparallel = false
RECURSIVE PrefixMin(_, _, _, _, _, _)
PrefixMin(ar, st, x, l, r, pre) ==
  IF st.tree[x] > pre
  THEN st
  ELSE IF l = r
  THEN LET nw == [st.now EXCEPT ![l] = LeafAdvance(ar[l], st.now[l], pre)]
       IN [tree |-> [st.tree EXCEPT ![x] = read(ar, nw, l)], now |-> nw]
  ELSE LET mid == (l + r) \div 2
           s1 == IF st.tree[x] = st.tree[lcs_rc(x)]
                 THEN IF st.tree[lcs_lc(x)] <= pre /\ st.tree[lcs_lc(x)] < Infinity
                      THEN LET lc_val == st.tree[lcs_lc(x)]
                               a == PrefixMin(ar, st, lcs_lc(x), l, mid, pre)
                           IN PrefixMin(ar, a, lcs_rc(x), mid + 1, r, lc_val)
                      ELSE PrefixMin(ar, st, lcs_rc(x), mid + 1, r, pre)
                 ELSE PrefixMin(ar, st, lcs_lc(x), l, mid, pre)
       IN [s1 EXCEPT !.tree[x] = Min(s1.tree[lcs_lc(x)], s1.tree[lcs_rc(x)])]

\* while (tree[1] < inf) { round++; PrefixMin(1, 1, n, inf); }
RECURSIVE ParalayRounds(_, _, _, _)
ParalayRounds(ar, sz, st, rnd) ==
  IF st.tree[1] < Infinity
  THEN ParalayRounds(ar, sz, PrefixMin(ar, st, 1, 1, sz, Infinity), rnd + 1)
  ELSE rnd

\* the value compute_arrows_paralay(sz, ...) returns when Read(i) finds ar[i]
compute_arrows_paralay(ar, sz) ==
  LET nw == [i \in 0 .. sz |-> 0]
      t == Construct(ar, nw, [x \in 0 .. (4 * sz - 1) |-> 0], 1, 1, sz)
  IN ParalayRounds(ar, sz, [tree |-> t, now |-> nw], 0)

\* what a read of arrows[sz], one past the end of the array, can find
PastTheEnd(sz) == AnyRows(sz)

\* arrows as Read sees it: rows 1 .. sz - 1 of the array, and row sz past it
RowsRead(sz, past) == [i \in 1 .. sz |-> IF i < sz THEN arrows[i] ELSE past]

\* the call solver.compute_arrows_paralay(n, arrows) of solveLCS, and the
\* return of solve(). With n = 0 Construct(1, 1, 0) recurses without end;
\* with n > 0 Read(n) reads past the array: any row, or a fault.
Paralay ==
  /\ pc = "lcs.paralay"
  /\ \/ /\ n > 0
        /\ \E past \in PastTheEnd(n) : ret' = compute_arrows_paralay(RowsRead(n, past), n)
        /\ pc' = "lcs.done"
        /\ thrown' = thrown
     \/ /\ pc' = "failed"
        /\ thrown' = IF n = 0 THEN "stack_overflow" ELSE "segfault"
        /\ ret' = ret
  /\ UNCHANGED <<tree, n, now, arrows, prefix_mode, parallel, granularity,
                 removed, lisVars, lcsVars, glwsVars, ttVars>>

NextSolve ==
  \/ \E sig \in Signatures : Solve(sig)
  \/ EnterLIS
  \/ NextLIS
  \/ Paralay

SpecSolve == InitSolve /\ [][NextSolve]_vars

\* the two signatures the recogniser knows, as the specification states them
IsLisSignature(sig) ==
  /\ sig.sv = 1 /\ sig.rd = 1 /\ sig.range_type = "LIRV" /\ sig.seqs = 1
  /\ sig.conds = 1 /\ sig.constraint = "NONE" /\ sig.expr = "MAX"
IsLcsSignature(sig) ==
  /\ sig.sv = 2 /\ sig.seqs = 2 /\ sig.conds = 2
  /\ sig.constraint = "EQUAL" /\ sig.expr = "STATUS"

\* C24: solve() on a problem that matches neither the LIS nor the LCS
\* signature raises an error to the caller and calls no backend solver.
C24_UnknownTypeRaises ==
  /\ [][\A sig \in Signatures :
         (~IsLisSignature(sig) /\ ~IsLcsSignature(sig) /\ Solve(sig)) =>
           /\ pc' = "failed" /\ thrown' = "runtime_error" /\ ret' = -1
           /\ tree' = tree /\ data' = data /\ arrows' = arrows /\ n' = n]_vars
  /\ [][pc = "failed" => pc' = "failed"]_vars
C24_Witness ==
  /\ pc = "failed" /\ thrown = "runtime_error" /\ tree = <<>> /\ data = <<>>
  /\ Len(data1) = MaxCall /\ Len(data2) = MaxCall

\* ------------------------------------------- LIS with a caller's comparator
\* LIS<int, std::greater<int>> is instantiated next to LIS<int>
InitLISCompare == LISUpTo(MaxN, {"less", "greater"})

SpecLISCompare == InitLISCompare /\ [][NextLIS]_vars

\* the subsequences whose consecutive pairs (x, y) all satisfy the comparator
CompareChain(nums, S) ==
  \A i \in S : \A j \in S :
    (i < j /\ ~\E k \in S : i < k /\ k < j) => Compare(nums[i], nums[j])
LongestCompareChain(nums, sz) ==
  LET lens == {Cardinality(S) : S \in {T \in SUBSET (0 .. (sz - 1)) : CompareChain(nums, T)}}
  IN CHOOSE m \in lens : \A v \in lens : v <= m

\* C25: with a strict comparator of the caller, std::greater for one,
\* LIS::compute returns the length of the longest subsequence whose
\* consecutive pairs (x, y) all satisfy cmp(x, y).
C25_ComparatorChain ==
  pc = "done" => ret = LongestCompareChain(data, n)

\* ------------------------------------------ one cascade, row by row
\* P_i: the least head, under the cursors nw, of the rows before row i
HeadsBefore(nw, i) == {read(arrows, nw, j) : j \in 0 .. (i - 1)}
PrefixThreshold(nw, i) ==
  IF i = 0
  THEN Infinity
  ELSE CHOOSE m \in HeadsBefore(nw, i) : \A v \in HeadsBefore(nw, i) : m <= v

\* the cursor of a row just past its elements that are at most p
PastAtMost(ys, k, p) ==
  k + Cardinality({a \in k .. (Len(ys) - 1) : At(ys, a) <= p})

\* C26: a prefix_min() started from the cursors S leaves the cursor of row i
\* just past the elements of the row that are at most P_i, the least head in
\* S of the rows before it (P_0 is the sentinel); a row whose head exceeds
\* P_i keeps its cursor; every leaf then holds the new head of its row.
C26_CascadeAdvancesPastThreshold ==
  (pc \in {"loop", "done"} /\ round >= 1) =>
    \A i \in 0 .. (n - 1) :
      LET P == PrefixThreshold(nowBefore, i)
      IN /\ now[i] = PastAtMost(arrows[i], nowBefore[i], P)
         /\ \A a \in nowBefore[i] .. (now[i] - 1) : At(arrows[i], a) <= P
         /\ now[i] < Len(arrows[i]) => At(arrows[i], now[i]) > P
         /\ read(arrows, nowBefore, i) > P => now[i] = nowBefore[i]
         /\ LeafVal(tree, n, i) = read(arrows, now, i)
C26_Witness ==
  /\ pc = "loop" /\ round = 1 /\ n = 3
  /\ \E i \in 1 .. (n - 1) : now[i] = nowBefore[i] /\ now[i] < Len(arrows[i])
  /\ \E j \in 1 .. (n - 1) : now[j] > nowBefore[j] /\ now[j] < Len(arrows[j])

\* ------------------------------------------- the cordon of LIS is final
\* length of the longest strictly increasing subsequence that ends at i
LisEndingAt(nums, i) ==
  LET lens == {Cardinality(S) : S \in {T \in SUBSET (0 .. i) : i \in T /\ Increasing(nums, T)}}
  IN CHOOSE m \in lens : \A v \in lens : v <= m

\* C27: when LIS::compute selects the cordon i*, dp[i*] is the length of the
\* longest increasing subsequence ending at i*: every j < i* with a smaller
\* element was finalised in an earlier round and has relaxed i*, and no state
\* finalised later changes the dp of a finalised one.
C27_CordonIsFinal ==
  /\ pc = "relax" =>
       /\ dp[cordonIdx] = LisEndingAt(data, cordonIdx)
       /\ dp_cordon = dp[cordonIdx]
       /\ \A j \in 0 .. (cordonIdx - 1) :
            data[j] < data[cordonIdx] =>
              /\ finalized[j]
              /\ dp[j] + 1 <= dp[cordonIdx]
  /\ pc \in {"select", "relax", "done"} =>
       \A i \in 0 .. (n - 1) : finalized[i] => dp[i] = LisEndingAt(data, i)
C27_Witness ==
  /\ pc = "relax" /\ n = 4 /\ dp[cordonIdx] = 3 /\ cordonIdx = 2
  /\ finalized[3] /\ dp[3] = 2

\* ------------------------------------------- what findCordon has probed
\* C28: when findCordon returns c, every state j with now < j < c lay in a
\* probed window, so c is the least s_j over now+1 .. c-1; the doubling loop
\* stops only once cordon <= r + 1 or the probed window has reached r = n.
C28_CordonProbesEveryState ==
  [][(pc = "findCordon" /\ pc' = "finalise") =>
       LET c == cordon'
           open == (glws_now + 1) .. (c - 1)
           last == MinOf({-w[2] : w \in Probed} \cup {0})
       IN /\ \A j \in open : \E w \in Probed : w[1] <= j /\ j <= w[2]
          /\ c = MinOf({n + 1} \cup {SOf(j) : j \in open})
          /\ c <= 1 - last \/ -last = n]_vars

\* ------------------------------------------- the finalised window of GLWS
\* C29: for a Monge cost function every D[i] the finalise loop of a round
\* writes, D[b] + cost(b, i) with b = findBest(i, B), is the true optimum,
\* the least D[j] + cost(j, i) over 0 <= j < i; no state of the finalised
\* window can still be improved by another state of that window.
C29_FinalisedIsOptimal ==
  [][\A i \in 1 .. MaxG :
       FinaliseOne(i) =>
         /\ D'[i] = D[findBest(i, B)] + costFunc(findBest(i, B), i)
         /\ D'[i] = RefD(i)
         /\ \A j \in FinaliseRange :
              (j < i /\ j \in fin) => D'[i] <= D[j] + costFunc(j, i)]_vars

\* ------------------------------------------- findIntervals, call by call
\* findIntervals is called by updateBest only, as
\* findIntervals(now + 1, cordon - 1, cordon, n, D): finalised predecessors
\* now+1 .. cordon-1, open states cordon .. n
InitIntervals ==
  /\ n \in 1 .. MaxG
  /\ cost \in {c \in [Pairs(n) -> 0 .. MaxCost] : IsMonge(c, n)}
  /\ D = [i \in 0 .. n |-> IF i = 0 THEN 0 ELSE Infinity]
  /\ glws_now = 0
  /\ B = <<[l |-> 1, r |-> n, j |-> 0]>>
  /\ cordon = 0 /\ fin = {} /\ glws_round = 0
  /\ pc = "findIntervals" /\ ret = -1
  /\ IdleTT
  /\ IdleTree /\ IdleLIS /\ IdleLCS

\* one call, on a window that has been finalised with the values Dv
FindIntervalsCall(nw, c, Dv) ==
  /\ pc = "findIntervals"
  /\ nw < n /\ nw + 2 <= c /\ c <= n + 1
  /\ D' = [i \in 0 .. n |-> IF nw < i /\ i < c THEN Dv[i] ELSE D[i]]
  /\ glws_now' = nw /\ cordon' = c
  /\ B' = findIntervals(D', nw + 1, c - 1, c, n)
  /\ pc' = "findIntervals.done"
  /\ UNCHANGED <<ret, treeVars, lisVars, lcsVars, ttVars, cost, fin, glws_round>>

NextIntervals ==
  /\ pc = "findIntervals"
  /\ \E nw \in 0 .. 1 : \E c \in (nw + 2) .. (n + 1) :
       \E Dv \in [1 .. MaxG -> 0 .. MaxCost] :
         (\A i \in 1 .. MaxG : (i <= nw \/ i >= c) => Dv[i] = 0)
           /\ FindIntervalsCall(nw, c, Dv)

SpecIntervals == InitIntervals /\ [][NextIntervals]_vars

\* C30: for a Monge cost function and finalised D over [jl, jr],
\* findIntervals(jl, jr, il, ir) returns exactly one entry per state i of
\* [il, ir], in ascending order of i, whose predecessor lies in [jl, jr],
\* never decreases with i, and minimises D[j] + cost(j, i) over [jl, jr].
C30_FindIntervalsOptimal ==
  pc = "findIntervals.done" =>
    LET jl == glws_now + 1
        jr == cordon - 1
        il == cordon
        ir == n
    IN /\ Len(B) = IF il > ir THEN 0 ELSE ir - il + 1
       /\ \A k \in 1 .. Len(B) :
            /\ B[k].l = il + k - 1 /\ B[k].r = il + k - 1
            /\ jl <= B[k].j /\ B[k].j <= jr
            /\ k > 1 => B[k - 1].j <= B[k].j
            /\ \A j \in jl .. jr :
                 D[B[k].j] + costFunc(B[k].j, B[k].l) <= D[j] + costFunc(j, B[k].l)
C30_Witness ==
  /\ pc = "findIntervals.done" /\ n = MaxG /\ cordon = 3 /\ glws_now = 0
  /\ Len(B) = 2 /\ B[1].j = 1 /\ B[2].j = 2 /\ D[1] > D[2]

\* ------------------------------------------- LIS on keys up to the sentinel
\* any value of T is a key, std::numeric_limits<T>::max() included
InitLISSentinel == LISOver(MaxN, {"less"}, (0 .. MaxKey) \cup {Infinity})

SpecLISSentinel == InitLISSentinel /\ [][NextLIS]_vars

\* C31: LIS::compute returns the length of the longest increasing
\* subsequence also when a key equals the sentinel, the default inf_value:
\* find_min_index never selects a removed leaf while a state is not finalised.
C31_SentinelKeys ==
  /\ pc = "relax" => ~finalized[cordonIdx]
  /\ pc = "done" => ret = LongestIncreasing(data, n)

\* ------------------------------------------- findBest never falls through
\* the intervals of B that hold state i
Holding(i) == {k \in 1 .. Len(B) : B[k].l <= i /\ i <= B[k].r}

\* C32: at the start of every round of ConvexGLWS::compute every state that
\* is not finalised, now+1 .. n, lies in exactly one interval of B, so no
\* findBest(i, B) of findCordon or of the finalise loop falls through to its
\* fallback 0.
C32_OpenStatesInOneInterval ==
  /\ pc = "findCordon" =>
       \A i \in (glws_now + 1) .. n : Cardinality(Holding(i)) = 1
  /\ pc = "finalise" =>
       \A i \in FinaliseRange :
         /\ Holding(i) # {}
         /\ \E k \in Holding(i) : findBest(i, B) = B[k].j
C32_Witness ==
  /\ pc = "finalise" /\ glws_round >= 2 /\ Len(B) >= 2
  /\ Cardinality(FinaliseRange) >= 2
  /\ \E i \in FinaliseRange : findBest(i, B) > 0

\* ------------------------------------------- the leaf case, call by call
\* the strictly increasing list over the elements of S
RECURSIVE IncreasingList(_)
IncreasingList(S) ==
  IF S = {}
  THEN <<>>
  ELSE LET m == CHOOSE v \in S : \A w \in S : w <= v
       IN Append(IncreasingList(S \ {m}), m)

\* rows short and long, up to MaxLongRows elements beyond the look-ahead
LeafRows == {IncreasingList(S) : S \in SUBSET (0 .. (LookAhead + MaxLongRows))}
LeafThresholds == (0 .. (LookAhead + MaxLongRows)) \cup {Infinity}

\* a one-leaf subtree over a row, cursor 0
InitLeaf ==
  /\ data1 = <<>> /\ data2 = <<>>
  /\ n = 1
  /\ arrows \in {[i \in {0} |-> ys] : ys \in LeafRows}
  /\ now = ArrowTree(arrows, 1).now
  /\ tree = ArrowTree(arrows, 1).tree
  /\ prefix_mode = TRUE /\ parallel = FALSE /\ granularity = 0
  /\ thrown = "none" /\ removed = {}
  /\ round = 0 /\ nowBefore = now /\ frames = <<>>
  /\ pc = "leaf" /\ ret = -1
  /\ IdleTT
  /\ IdleLIS /\ IdleGLWS

\* prefix_min_recursive(x, l, l, pre) at the leaf, past the early return
LeafStep(pre) ==
  /\ pc = "leaf"
  /\ ~(tree[0] > pre)
  /\ nowBefore' = now
  /\ now' = [now EXCEPT ![0] = LeafAdvance(arrows[0], now[0], pre)]
  /\ tree' = [tree EXCEPT ![0] = read(arrows, now', 0)]
  /\ UNCHANGED <<pc, ret, n, arrows, prefix_mode, parallel, granularity, thrown,
                 removed, lisVars, data1, data2, round, frames, glwsVars, ttVars>>

NextLeaf == \E pre \in LeafThresholds : LeafStep(pre)

SpecLeaf == InitLeaf /\ [][NextLeaf]_vars

\* the first position >= k of ys whose element exceeds p, or the length
FirstAbove(ys, k, p) ==
  LET above == {a \in k .. (Len(ys) - 1) : At(ys, a) > p}
  IN IF above = {} THEN Len(ys) ELSE CHOOSE a \in above : \A b \in above : a <= b

\* C33: at a leaf with a strictly increasing row the linear steps and the
\* bisection give the same cursor, the first position >= the old cursor whose
\* element exceeds pre (the length if none), whichever the test on the
\* element 8 ahead selects.
C33_LinearEqualsBisection ==
  [][\A pre \in LeafThresholds :
       LeafStep(pre) =>
         LET ys == arrows[0]
             k == now[0]
             first == FirstAbove(ys, k, pre)
         IN /\ LinearStep(ys, k, pre) = first
            /\ upper_bound(ys, k, Len(ys) - k, pre) = first
            /\ now'[0] = first]_vars
C33_Witness ==
  /\ pc = "leaf" /\ nowBefore[0] = 0 /\ now[0] = LookAhead + 1
  /\ Len(arrows[0]) = LookAhead + MaxLongRows
  /\ At(arrows[0], now[0]) > At(arrows[0], now[0] - 1) + 1

\* ------------------------------------------- the finalise loop reads below now
\* C34: every interval {l, r, j} of B has j < l, and at the start of a round
\* j <= now; so the parallel finalise loop, which writes D[i] for
\* now < i < cordon and reads D[findBest(i, B)], never reads a cell that
\* another iteration of the loop writes.
C34_FinaliseReadsFinalised ==
  /\ \A k \in 1 .. Len(B) : B[k].j < B[k].l
  /\ pc \in {"findCordon", "finalise"} =>
       \A k \in 1 .. Len(B) : B[k].j <= glws_now
  /\ pc = "finalise" =>
       \A i \in FinaliseRange :
         /\ findBest(i, B) \notin FinaliseRange
         /\ findBest(i, B) <= glws_now
C34_Witness ==
  /\ pc = "finalise" /\ glws_round >= 2 /\ Len(B) >= 2
  /\ fin # {} /\ fin # FinaliseRange
  /\ \E i \in FinaliseRange \ fin : findBest(i, B) = glws_now

\* --------------------------------------------------- LockFreeTournamentTree
\* nodes[i] = [vv |-> versioned_value, needs_update, is_leaf]; the children
\* and the parent of node i are the indices the constructor stores
Threads == 1 .. MaxThreads
VersionedValue(val, ver) == [value |-> val, version |-> ver]
left_child_index(i) == 2 * i + 1
right_child_index(i) == 2 * i + 2
parent_index(i) == (i - 1) \div 2

\* while ((1ULL << height) < capacity) height++
RECURSIVE HeightFrom(_, _)
HeightFrom(capacity, height) ==
  IF 2 ^ height < capacity THEN HeightFrom(capacity, height + 1) ELSE height
Height(capacity) == HeightFrom(capacity, 0)

\* first_leaf of the constructor, and first_leaf as insert computes it
CtorFirstLeaf(capacity) == 2 ^ Height(capacity) - 1
InsertFirstLeaf == total_nodes - leaf_count * 2 + 1

\* the winner update_node computes from the values of the two children
NodeWinner(l, r) ==
  IF l = Infinity THEN r
  ELSE IF r = Infinity THEN l
  ELSE IF cmp(l, r) THEN l
  ELSE r

\* the tree the constructor leaves: sentinel leaves, and rebuild_tournament
\* run over the internal nodes from the last one down to the root, each
\* update_node replacing T{} by the sentinel under a fresh version
Constructed(capacity) ==
  LET first_leaf == CtorFirstLeaf(capacity)
      total == 2 ^ (Height(capacity) + 1) - 1
  IN [i \in 0 .. (total - 1) |->
        IF i >= first_leaf
        THEN [vv |-> VersionedValue(Infinity, 0), needs_update |-> FALSE,
              is_leaf |-> TRUE]
        ELSE [vv |-> VersionedValue(Infinity, first_leaf - 1 - i),
              needs_update |-> FALSE, is_leaf |-> FALSE]]

\* a thread outside every call
IdleThread ==
  [pc |-> "idle", op |-> "none", index |-> 0, value |-> 0, leaf |-> 0,
   current |-> VersionedValue(0, 0), new_val |-> VersionedValue(0, 0),
   winner_value |-> 0, at |-> 0, idx |-> 0, left_val |-> 0, winner |-> 0,
   changed |-> FALSE, back |-> "none"]

InitTournament ==
  /\ leaf_count \in 1 .. MaxLeaves
  /\ total_nodes = 2 ^ (Height(leaf_count) + 1) - 1
  /\ nodes = Constructed(leaf_count)
  /\ global_version = CtorFirstLeaf(leaf_count)
  /\ threads = [t \in Threads |-> IdleThread]
  /\ log = <<>>
  /\ pc = "tournament" /\ ret = -1
  /\ n = 0 /\ IdleTree /\ IdleLIS /\ IdleLCS /\ IdleGLWS

ttOthers == <<pc, ret, treeVars, lisVars, lcsVars, glwsVars, leaf_count, total_nodes>>

Running == {t \in Threads : threads[t].pc # "idle"}
MayStart(t) ==
  /\ pc = "tournament"
  /\ threads[t].pc = "idle"
  /\ Len(log) + Cardinality(Running) < MaxOps

\* the call of thread t returns result
Returns(t, result) ==
  /\ log' = Append(log, [t |-> t, op |-> threads[t].op, index |-> threads[t].index,
                         value |-> threads[t].value, result |-> result])
  /\ threads' = [threads EXCEPT ![t] = IdleThread]

\* what the running call of t returns once its path is updated
Result(t) == IF threads[t].op = "insert" THEN 1 ELSE threads[t].winner_value

\* insert(index, value) up to the load of the leaf's versioned value
Insert(t, index, value) ==
  /\ MayStart(t)
  /\ LET leaf_idx == InsertFirstLeaf + index
         me == [threads[t] EXCEPT !.op = "insert", !.index = index, !.value = value]
     IN IF index >= leaf_count \/ leaf_idx >= total_nodes
        THEN /\ log' = Append(log, [t |-> t, op |-> "insert", index |-> index,
                                    value |-> value, result |-> 0])
             /\ threads' = threads
        ELSE /\ threads' = [threads EXCEPT ![t] =
                              [me EXCEPT !.pc = "fetch", !.leaf = leaf_idx,
                                         !.current = nodes[leaf_idx].vv]]
             /\ log' = log
  /\ UNCHANGED <<ttOthers, nodes, global_version>>

\* get_winner(): one load of the root
GetWinner(t) ==
  /\ MayStart(t)
  /\ log' = Append(log, [t |-> t, op |-> "get_winner", index |-> 0, value |-> 0,
                         result |-> nodes[0].vv.value])
  /\ UNCHANGED <<ttOthers, nodes, global_version, threads>>

\* extract_winner() and replace_winner(new_value), up to find_winner_leaf
ExtractWinner(t) ==
  /\ MayStart(t)
  /\ threads' = [threads EXCEPT ![t] =
                   [@ EXCEPT !.pc = "find.root", !.op = "extract_winner",
                             !.value = Infinity]]
  /\ UNCHANGED <<ttOthers, nodes, global_version, log>>

ReplaceWinner(t, new_value) ==
  /\ MayStart(t)
  /\ threads' = [threads EXCEPT ![t] =
                   [@ EXCEPT !.pc = "find.root", !.op = "replace_winner",
                             !.value = new_value]]
  /\ UNCHANGED <<ttOthers, nodes, global_version, log>>

\* find_winner_leaf: the load of the root
FindRoot(t) ==
  /\ threads[t].pc = "find.root"
  /\ IF nodes[0].vv.value = Infinity
     THEN Returns(t, Infinity)
     ELSE /\ threads' = [threads EXCEPT ![t] =
                           [@ EXCEPT !.pc = "find.left", !.at = 0,
                                     !.winner_value = nodes[0].vv.value]]
          /\ log' = log
  /\ UNCHANGED <<ttOthers, nodes, global_version>>

\* find_winner_leaf: the loop test and the load of the left child
FindLeft(t) ==
  /\ threads[t].pc = "find.left"
  /\ LET current == threads[t].at
     IN IF nodes[current].is_leaf
        THEN threads' = [threads EXCEPT ![t] = [@ EXCEPT !.pc = "load", !.leaf = current]]
        ELSE threads' = [threads EXCEPT ![t] =
                           [@ EXCEPT !.pc = "find.right",
                                     !.left_val = nodes[left_child_index(current)].vv.value]]
  /\ UNCHANGED <<ttOthers, nodes, global_version, log>>

\* find_winner_leaf: the load of the right child, and the move down or the
\* restart from the root
FindRight(t) ==
  /\ threads[t].pc = "find.right"
  /\ LET current == threads[t].at
         right_val == nodes[right_child_index(current)].vv.value
     IN threads' = [threads EXCEPT ![t] =
          IF threads[t].left_val = threads[t].winner_value
          THEN [@ EXCEPT !.pc = "find.left", !.at = left_child_index(current)]
          ELSE IF right_val = threads[t].winner_value
          THEN [@ EXCEPT !.pc = "find.left", !.at = right_child_index(current)]
          ELSE [@ EXCEPT !.pc = "find.root"]]
  /\ UNCHANGED <<ttOthers, nodes, global_version, log>>

\* extract_winner / replace_winner: the load of the winner leaf
LoadWinner(t) ==
  /\ threads[t].pc = "load"
  /\ LET current == nodes[threads[t].leaf].vv
     IN IF current.value = Infinity
        THEN Returns(t, Infinity)
        ELSE /\ threads' = [threads EXCEPT ![t] =
                              [@ EXCEPT !.pc = "fetch", !.current = current,
                                        !.winner_value = current.value]]
             /\ log' = log
  /\ UNCHANGED <<ttOthers, nodes, global_version>>

\* global_version.fetch_add(1) and the new versioned value
FetchVersion(t) ==
  /\ threads[t].pc = "fetch"
  /\ threads' = [threads EXCEPT ![t] =
                   [@ EXCEPT !.pc = "cas",
                             !.new_val = VersionedValue(threads[t].value, global_version)]]
  /\ global_version' = global_version + 1
  /\ UNCHANGED <<ttOthers, nodes, log>>

\* compare_exchange_strong on the leaf: success, or the reload of current
CasLeaf(t) ==
  /\ threads[t].pc = "cas"
  /\ LET leaf_idx == threads[t].leaf
     IN IF nodes[leaf_idx].vv = threads[t].current
        THEN /\ nodes' = [nodes EXCEPT ![leaf_idx].vv = threads[t].new_val]
             /\ threads' = [threads EXCEPT ![t] = [@ EXCEPT !.pc = "mark", !.at = leaf_idx]]
             /\ log' = log
        ELSE /\ nodes' = nodes
             /\ IF threads[t].op # "insert"
                   /\ nodes[leaf_idx].vv.value # threads[t].winner_value
                THEN Returns(t, Infinity)
                ELSE /\ threads' = [threads EXCEPT ![t] =
                                      [@ EXCEPT !.pc = "fetch",
                                                !.current = nodes[leaf_idx].vv]]
                     /\ log' = log
  /\ UNCHANGED <<ttOthers, global_version>>

\* mark_path_to_root: one store of needs_update
MarkPath(t) ==
  /\ threads[t].pc = "mark"
  /\ LET current == threads[t].at
     IN IF current > 0
        THEN /\ nodes' = [nodes EXCEPT ![parent_index(current)].needs_update = TRUE]
             /\ threads' = [threads EXCEPT ![t] = [@ EXCEPT !.at = parent_index(current)]]
        ELSE /\ nodes' = [nodes EXCEPT ![0].needs_update = TRUE]
             /\ threads' = [threads EXCEPT ![t] = [@ EXCEPT !.pc = "update", !.at = threads[t].leaf]]
  /\ UNCHANGED <<ttOthers, global_version, log>>

\* update_path_to_root: the loop test and the load of the parent's flag
UpdatePath(t) ==
  /\ threads[t].pc = "update"
  /\ LET current == threads[t].at
     IN threads' = [threads EXCEPT ![t] =
          IF current > 0 /\ nodes[parent_index(current)].needs_update
          THEN [@ EXCEPT !.pc = "node.left", !.idx = parent_index(current), !.back = "loop"]
          ELSE [@ EXCEPT !.pc = "update.root"]]
  /\ UNCHANGED <<ttOthers, nodes, global_version, log>>

\* update_path_to_root: the root after the loop, and the return of the call
UpdateRoot(t) ==
  /\ threads[t].pc = "update.root"
  /\ IF nodes[0].needs_update
     THEN /\ threads' = [threads EXCEPT ![t] =
                           [@ EXCEPT !.pc = "node.left", !.idx = 0, !.back = "root"]]
          /\ log' = log
     ELSE Returns(t, Result(t))
  /\ UNCHANGED <<ttOthers, nodes, global_version>>

\* update_node: the load of the left child
NodeLeft(t) ==
  /\ threads[t].pc = "node.left"
  /\ threads' = [threads EXCEPT ![t] =
       IF nodes[threads[t].idx].is_leaf
       THEN [@ EXCEPT !.pc = "node.ret", !.changed = FALSE]
       ELSE [@ EXCEPT !.pc = "node.right",
                      !.left_val = nodes[left_child_index(threads[t].idx)].vv.value]]
  /\ UNCHANGED <<ttOthers, nodes, global_version, log>>

\* update_node: the load of the right child and the winner
NodeRight(t) ==
  /\ threads[t].pc = "node.right"
  /\ threads' = [threads EXCEPT ![t] =
       [@ EXCEPT !.pc = "node.current",
                 !.winner = NodeWinner(threads[t].left_val,
                                       nodes[right_child_index(threads[t].idx)].vv.value)]]
  /\ UNCHANGED <<ttOthers, nodes, global_version, log>>

\* update_node: the load of the node itself
NodeCurrent(t) ==
  /\ threads[t].pc = "node.current"
  /\ threads' = [threads EXCEPT ![t] =
       LET current == nodes[threads[t].idx].vv
       IN IF current.value = threads[t].winner
          THEN [@ EXCEPT !.pc = "node.clear", !.changed = FALSE]
          ELSE [@ EXCEPT !.pc = "node.fetch", !.current = current]]
  /\ UNCHANGED <<ttOthers, nodes, global_version, log>>

\* update_node: global_version.fetch_add(1)
NodeFetch(t) ==
  /\ threads[t].pc = "node.fetch"
  /\ threads' = [threads EXCEPT ![t] =
                   [@ EXCEPT !.pc = "node.cas",
                             !.new_val = VersionedValue(threads[t].winner, global_version)]]
  /\ global_version' = global_version + 1
  /\ UNCHANGED <<ttOthers, nodes, log>>

\* update_node: compare_exchange_strong on the node
NodeCas(t) ==
  /\ threads[t].pc = "node.cas"
  /\ LET idx == threads[t].idx
     IN IF nodes[idx].vv = threads[t].current
        THEN /\ nodes' = [nodes EXCEPT ![idx].vv = threads[t].new_val]
             /\ threads' = [threads EXCEPT ![t] =
                              [@ EXCEPT !.pc = "node.clear", !.changed = TRUE]]
        ELSE /\ nodes' = nodes
             /\ threads' = [threads EXCEPT ![t] =
                  IF nodes[idx].vv.value = threads[t].winner
                  THEN [@ EXCEPT !.pc = "node.clear", !.changed = FALSE]
                  ELSE [@ EXCEPT !.pc = "node.fetch", !.current = nodes[idx].vv]]
  /\ UNCHANGED <<ttOthers, global_version, log>>

\* update_node: needs_update.store(false)
NodeClear(t) ==
  /\ threads[t].pc = "node.clear"
  /\ nodes' = [nodes EXCEPT ![threads[t].idx].needs_update = FALSE]
  /\ threads' = [threads EXCEPT ![t] = [@ EXCEPT !.pc = "node.ret"]]
  /\ UNCHANGED <<ttOthers, global_version, log>>

\* the return of update_node into update_path_to_root
NodeReturn(t) ==
  /\ threads[t].pc = "node.ret"
  /\ IF threads[t].back = "root"
     THEN Returns(t, Result(t))
     ELSE /\ threads' = [threads EXCEPT ![t] =
               IF threads[t].changed
               THEN [@ EXCEPT !.pc = "update", !.at = threads[t].idx]
               ELSE [@ EXCEPT !.pc = "update.root"]]
          /\ log' = log
  /\ UNCHANGED <<ttOthers, nodes, global_version>>

NextTournament ==
  \E t \in Threads :
    \/ \E index \in 0 .. MaxLeaves : \E value \in 0 .. MaxVal : Insert(t, index, value)
    \/ GetWinner(t)
    \/ ExtractWinner(t)
    \/ \E new_value \in 0 .. MaxVal : ReplaceWinner(t, new_value)
    \/ FindRoot(t)
    \/ FindLeft(t)
    \/ FindRight(t)
    \/ LoadWinner(t)
    \/ FetchVersion(t)
    \/ CasLeaf(t)
    \/ MarkPath(t)
    \/ UpdatePath(t)
    \/ UpdateRoot(t)
    \/ NodeLeft(t)
    \/ NodeRight(t)
    \/ NodeCurrent(t)
    \/ NodeFetch(t)
    \/ NodeCas(t)
    \/ NodeClear(t)
    \/ NodeReturn(t)

SpecTournament == InitTournament /\ [][NextTournament]_vars

\* no call is in progress
Quiescent == pc = "tournament" /\ Running = {}
InternalNodes == {i \in DOMAIN nodes : ~nodes[i].is_leaf}
LeafNodes == {i \in DOMAIN nodes : nodes[i].is_leaf}
\* the least leaf value, the sentinel when every leaf holds it
LeafMinimum ==
  LET vals == {nodes[i].vv.value : i \in LeafNodes}
  IN CHOOSE v \in vals : \A w \in vals : v <= w

\* C35: whenever no call is in progress, every internal node holds the winner
\* of the values of its two children (sentinels losing), and the root, which
\* get_winner() returns, holds the least of the leaf values.
C35_QuiescentTournament ==
  Quiescent =>
    /\ \A i \in InternalNodes :
         nodes[i].vv.value = NodeWinner(nodes[left_child_index(i)].vv.value,
                                        nodes[right_child_index(i)].vv.value)
    /\ nodes[0].vv.value = LeafMinimum

\* the calls so far are insert(i, v), which succeeded, and then op by the
\* same thread, on a tree nothing else has touched
InsertThen(op) ==
  /\ Quiescent /\ Len(log) = 2
  /\ log[1].op = "insert" /\ log[1].result = 1
  /\ log[2].op = op /\ log[2].t = log[1].t

\* C36: insert(index, value) with index < capacity writes the leaf the
\* constructor made for index, never an internal node; alone on an empty
\* tree, insert(i, v) then get_winner() gives v, and insert(i, v) then
\* extract_winner() walks to the leaf without restarting and returns v.
C36_InsertWritesItsLeaf ==
  /\ \A t \in Threads :
       threads[t].op = "insert" /\ threads[t].pc # "idle" =>
         /\ threads[t].leaf = CtorFirstLeaf(leaf_count) + threads[t].index
         /\ nodes[threads[t].leaf].is_leaf
  /\ InsertThen("get_winner") => log[2].result = log[1].value
  /\ InsertThen("extract_winner") => log[2].result = log[1].value
  /\ \A t \in Threads :
       /\ Running = {t} /\ threads[t].pc = "find.right"
       /\ Len(log) = 1 /\ log[1].op = "insert" /\ log[1].t = t
       => \/ threads[t].left_val = threads[t].winner_value
          \/ nodes[right_child_index(threads[t].at)].vv.value = threads[t].winner_value

\* C37: for an LCS-pattern problem over two sequences of equal length n,
\* solve() returns their LCS length; compute_arrows_paralay reads every row
\* 0 .. n-1 of the arrows solveLCS built and no row outside the array.
C37_SolveLcsReadsBuiltRows ==
  Len(data1) = Len(data2) =>
    /\ pc = "lcs.paralay" /\ n > 0 => ConstructReads(1, n) = DOMAIN arrows
    /\ pc = "lcs.done" => ret = lcs_dp_naive(data1, data2)
    /\ pc = "failed" => thrown = "runtime_error"

====
